---- MODULE Spec2Model ----
(***************************************************************************)
(* Active-shift state machine of wage-timer (TimerProvider in              *)
(* src/contexts/TimerContext.tsx, last revision in the file) together with *)
(* the history and key-value collaborators it drives.                      *)
(*                                                                         *)
(* Time is the value of Date.now() in milliseconds.  Model time 0 is local *)
(* midnight of a Sunday.  A React commit is one state of the model: a      *)
(* handler (command, interval callback, recovery effect) produces a commit *)
(* and the passive effects whose dependencies changed run as the next,     *)
(* forced, step (RunEffects) before anything else can happen.              *)
(***************************************************************************)
EXTENDS Integers, Sequences, FiniteSets, TLC

\* ---------------------------------------------------------------- bounds
MaxTicks == 9               \* seconds the process is observed running
MaxManualBreaks == 1        \* manual breaks the user starts in one shift
MaxHistory == 1             \* shifts the user finalizes
MaxLateTicks == 3           \* callbacks of the throttled interval

\* ------------------------------------------------------- program constants
TICK_MS == 1000
MS_PER_SECOND == 1000
SECONDS_PER_MINUTE == 60
MINUTES_PER_HOUR == 60
MS_PER_MINUTE == 60000
MS_PER_DAY == 86400000
DEFAULT_UNUSED == 0
DEFAULT_DAY_PERCENT == 100

ALL_DAYS == <<"Sunday", "Monday", "Tuesday", "Wednesday", "Thursday", "Friday", "Saturday">>

\* null / undefined of an object-valued field or storage key
Null == [null |-> TRUE]
\* null of scheduledBreakCountdown (number | null)
NULL_COUNTDOWN == -1
\* undefined endTime of a BreakRecord (falsy, like 0)
NO_END == 0

Max(a, b) == IF a >= b THEN a ELSE b

\* ------------------------------------------------------------ Date helpers
getDay(t) == (t \div MS_PER_DAY) % 7
MinutesOfDay(t) == (t % MS_PER_DAY) \div MS_PER_MINUTE
toDateString(t) == t \div MS_PER_DAY
\* parseInt(x.split(':')[0]) * 60 + parseInt(x.split(':')[1]) of an "HH:MM" string
ParseMinutes(hm) == hm.hh * MINUTES_PER_HOUR + hm.mm

\* ---------------------------------------------------------- configurations
BreakA == [id |-> "A", name |-> "Lunch", startTime |-> [hh |-> 0, mm |-> 1],
           endTime |-> [hh |-> 0, mm |-> 2], days |-> {"Sunday"}]
BreakB == [id |-> "B", name |-> "", startTime |-> [hh |-> 0, mm |-> 1],
           endTime |-> [hh |-> 0, mm |-> 3], days |-> {"Sunday", "Monday"}]
BreakM == [id |-> "M", name |-> "Weekday", startTime |-> [hh |-> 0, mm |-> 1],
           endTime |-> [hh |-> 0, mm |-> 2], days |-> {"Monday"}]

defaultDayAllowances == [d \in {ALL_DAYS[i] : i \in 1..7} |-> 100]

SettingsWith(sbs) ==
  [baseWage |-> 10, dayAllowances |-> defaultDayAllowances,
   hourlyAllowances |-> <<>>, scheduledBreaks |-> sbs]

Configs == { SettingsWith(<<BreakM, BreakA>>), SettingsWith(<<BreakA, BreakB>>) }

\* inputs: when the process is first started, when the user issues commands,
\* when the process is stopped and for how long
StartTimes == {58000}
UserTimes == {58000, 62000, 65000}
RestartTimes == {65000}
RestartDelays == {0, 55000, 70000}

\* -------------------------------------------------------------------- state
VARIABLES
  status,                       \* 'idle' | 'working' | 'on_break' | 'on_scheduled_break'
  currentShift,                 \* ActiveShift | null
  elapsedWorkTime,
  elapsedBreakTime,
  scheduledBreakCountdown,      \* seconds or NULL_COUNTDOWN
  lastUnusedScheduledBreakTime, \* banked unused seconds
  isLoading,                    \* isLoading || settingsLoading
  timerInterval,                \* "null", or the status the interval callback closed over
  localStorage,                 \* [shift, status, unused], each Null when the key is absent
  workHistory,                  \* finalized shifts, newest first
  settings,
  now,                          \* Date.now()
  effectDeps,                   \* dependency values the passive effects last ran with
  lastOp,                       \* the handler that produced this commit
  stopped,                      \* state the process was in when it last stopped
  earlyBanks,                   \* early ends that banked seconds in the current shift
  ticks,                        \* seconds the process has been running
  intervals,                    \* live setInterval timers, each the status its callback closed over
  currentEarnings,              \* live earnings, in hundredths
  effectiveHourlyRate,          \* live rate, in hundredths per hour
  wageCalculator,               \* the definition of wageCalculator.ts the imports are bound to
  call,                         \* arguments of a wageCalculator call under study
  result                        \* what that call returned

vars == <<status, currentShift, elapsedWorkTime, elapsedBreakTime, scheduledBreakCountdown,
          lastUnusedScheduledBreakTime, isLoading, timerInterval, localStorage, workHistory,
          settings, now, effectDeps, lastOp, stopped, earlyBanks, ticks,
          intervals, currentEarnings, effectiveHourlyRate, wageCalculator, call, result>>

\* The React state and the stores as one record, the form the handlers work on.
St ==
  [status |-> status, currentShift |-> currentShift,
   elapsedWorkTime |-> elapsedWorkTime, elapsedBreakTime |-> elapsedBreakTime,
   scheduledBreakCountdown |-> scheduledBreakCountdown,
   lastUnusedScheduledBreakTime |-> lastUnusedScheduledBreakTime,
   isLoading |-> isLoading, timerInterval |-> timerInterval,
   localStorage |-> localStorage, workHistory |-> workHistory,
   currentEarnings |-> currentEarnings, effectiveHourlyRate |-> effectiveHourlyRate]

Commit(r) ==
  /\ status' = r.status
  /\ currentShift' = r.currentShift
  /\ elapsedWorkTime' = r.elapsedWorkTime
  /\ elapsedBreakTime' = r.elapsedBreakTime
  /\ scheduledBreakCountdown' = r.scheduledBreakCountdown
  /\ lastUnusedScheduledBreakTime' = r.lastUnusedScheduledBreakTime
  /\ isLoading' = r.isLoading
  /\ timerInterval' = r.timerInterval
  /\ localStorage' = r.localStorage
  /\ workHistory' = r.workHistory
  /\ currentEarnings' = r.currentEarnings
  /\ effectiveHourlyRate' = r.effectiveHourlyRate

\* useState initial values (lines 1121-1131)
InitialState(store, hist) ==
  [status |-> "idle", currentShift |-> Null,
   elapsedWorkTime |-> 0, elapsedBreakTime |-> 0,
   scheduledBreakCountdown |-> NULL_COUNTDOWN,
   lastUnusedScheduledBreakTime |-> 0,
   isLoading |-> TRUE, timerInterval |-> "null",
   localStorage |-> store, workHistory |-> hist,
   currentEarnings |-> 0, effectiveHourlyRate |-> 0]

\* A localStorage key is absent or holds a JSON value.
Absent == [present |-> FALSE]
Item(v) == [present |-> TRUE, value |-> v]
EmptyStorage == [shift |-> Absent, status |-> Absent, unused |-> Absent]

\* getFromLocalStorage(key, defaultValue)
getFromLocalStorage(store, key, defaultValue) ==
  IF store[key].present THEN store[key].value ELSE defaultValue

\* setToLocalStorage(key, value) / localStorage.removeItem(key)
setToLocalStorage(store, key, value) == [store EXCEPT ![key] = Item(value)]
removeItem(store, key) == [store EXCEPT ![key] = Absent]

\* ----------------------------------------------------------- break records
IsOpen(b) == b.endTime = NO_END
\* b.isScheduled && b.scheduledBreakId === id && !b.endTime
IsOpenScheduled(b, id) == b.isScheduled /\ b.scheduledBreakId = id /\ IsOpen(b)

Exists(P(_), sq) == \E i \in 1..Len(sq) : P(sq[i])

\* currentShiftRef.current?.startTime is truthy
HasStart(shift) == shift # Null /\ shift.startTime # 0

\* Faulty variant: the open record is left open
CloseScheduled_leavesOpen(breaks, id, t) == breaks

\* close every open record of the scheduled break `id` at t
CloseScheduled(breaks, id, t) ==
  [i \in 1..Len(breaks) |->
     IF IsOpenScheduled(breaks[i], id) THEN [breaks[i] EXCEPT !.endTime = t] ELSE breaks[i]]

\* ------------------------------------------------------------ BreakScheduler
\* Faulty variant: firing keeps the seconds banked by an earlier early end
FireScheduledBreak_keepsBank(s, t, sb, breakDurationSeconds) ==
  LET newBreakRecord == [startTime |-> t, endTime |-> NO_END, isScheduled |-> TRUE,
                         scheduledBreakId |-> sb.id, scheduledBreakName |-> sb.name]
      activeBreakInfoPayload == [id |-> sb.id, name |-> sb.name,
                                 originalDurationSeconds |-> breakDurationSeconds,
                                 scheduledStartTime |-> sb.startTime,
                                 scheduledEndTime |-> sb.endTime]
  IN [s EXCEPT
        !.currentShift = [@ EXCEPT !.breaks = Append(@, newBreakRecord),
                                   !.activeScheduledBreakInfo = activeBreakInfoPayload],
        !.status = "on_scheduled_break",
        !.scheduledBreakCountdown = breakDurationSeconds]

\* Faulty variant: the countdown is what is left of the window at t
FireScheduledBreak_restOfWindow(s, t, sb, breakDurationSeconds) ==
  LET newBreakRecord == [startTime |-> t, endTime |-> NO_END, isScheduled |-> TRUE,
                         scheduledBreakId |-> sb.id, scheduledBreakName |-> sb.name]
      activeBreakInfoPayload == [id |-> sb.id, name |-> sb.name,
                                 originalDurationSeconds |-> breakDurationSeconds,
                                 scheduledStartTime |-> sb.startTime,
                                 scheduledEndTime |-> sb.endTime]
  IN [s EXCEPT
        !.currentShift = [@ EXCEPT !.breaks = Append(@, newBreakRecord),
                                   !.activeScheduledBreakInfo = activeBreakInfoPayload],
        !.status = "on_scheduled_break",
        !.scheduledBreakCountdown =
           ParseMinutes(sb.endTime) * SECONDS_PER_MINUTE - (t % MS_PER_DAY) \div MS_PER_SECOND,
        !.lastUnusedScheduledBreakTime = 0,
        !.localStorage = setToLocalStorage(@, "unused", 0)]

\* The record appended and the metadata set when scheduled break sb fires at t.
FireScheduledBreak(s, t, sb, breakDurationSeconds) ==
  LET newBreakRecord == [startTime |-> t, endTime |-> NO_END, isScheduled |-> TRUE,
                         scheduledBreakId |-> sb.id, scheduledBreakName |-> sb.name]
      activeBreakInfoPayload == [id |-> sb.id, name |-> sb.name,
                                 originalDurationSeconds |-> breakDurationSeconds,
                                 scheduledStartTime |-> sb.startTime,
                                 scheduledEndTime |-> sb.endTime]
  IN [s EXCEPT
        !.currentShift = [@ EXCEPT !.breaks = Append(@, newBreakRecord),
                                   !.activeScheduledBreakInfo = activeBreakInfoPayload],
        !.status = "on_scheduled_break",
        !.scheduledBreakCountdown = breakDurationSeconds,
        !.lastUnusedScheduledBreakTime = 0,
        !.localStorage = setToLocalStorage(@, "unused", 0)]

\* Faulty variant: a record completed today does not stop the break from firing again
ShouldFire_ignoresCompleted(shift, t, sb) ==
  LET breakStartMinutes == ParseMinutes(sb.startTime)
      breakEndMinutes == ParseMinutes(sb.endTime)
      currentTimeMinutes == MinutesOfDay(t)
  IN /\ ALL_DAYS[getDay(t) + 1] \in sb.days
     /\ currentTimeMinutes >= breakStartMinutes
     /\ currentTimeMinutes < breakEndMinutes
     /\ ~(shift.activeScheduledBreakInfo # Null /\ shift.activeScheduledBreakInfo.id = sb.id)
     /\ ~Exists(LAMBDA b : IsOpenScheduled(b, sb.id), shift.breaks)
     /\ (breakEndMinutes - breakStartMinutes) * SECONDS_PER_MINUTE > 0

\* Is sb to be fired at t?  (the loop body's `continue` conditions)
ShouldFire(shift, t, sb) ==
  LET breakStartMinutes == ParseMinutes(sb.startTime)
      breakEndMinutes == ParseMinutes(sb.endTime)
      currentTimeMinutes == MinutesOfDay(t)
  IN /\ ALL_DAYS[getDay(t) + 1] \in sb.days
     /\ currentTimeMinutes >= breakStartMinutes
     /\ currentTimeMinutes < breakEndMinutes
     /\ ~(shift.activeScheduledBreakInfo # Null /\ shift.activeScheduledBreakInfo.id = sb.id)
     /\ ~Exists(LAMBDA b : IsOpenScheduled(b, sb.id), shift.breaks)
     /\ ~Exists(LAMBDA b : /\ b.isScheduled
                           /\ b.scheduledBreakId = sb.id
                           /\ b.endTime # NO_END
                           /\ toDateString(b.startTime) = toDateString(t), shift.breaks)
     /\ (breakEndMinutes - breakStartMinutes) * SECONDS_PER_MINUTE > 0

RECURSIVE TriggerFrom_noReturn(_, _, _, _)
\* Faulty variant: the loop goes on after a break fired
TriggerFrom_noReturn(s, t, sbs, i) ==
  IF i > Len(sbs) THEN s
  ELSE LET rest == TriggerFrom_noReturn(s, t, sbs, i + 1)
       IN IF ShouldFire(s.currentShift, t, sbs[i])
          THEN FireScheduledBreak(rest, t, sbs[i],
                 (ParseMinutes(sbs[i].endTime) - ParseMinutes(sbs[i].startTime)) * SECONDS_PER_MINUTE)
          ELSE rest

RECURSIVE TriggerFrom_lastWins(_, _, _, _)
\* Faulty variant: of the breaks that could fire, the last in the list does
TriggerFrom_lastWins(s, t, sbs, i) ==
  IF i > Len(sbs) THEN s
  ELSE LET rest == TriggerFrom_lastWins(s, t, sbs, i + 1)
       IN IF rest # s THEN rest
          ELSE IF ShouldFire(s.currentShift, t, sbs[i])
               THEN FireScheduledBreak(s, t, sbs[i],
                      (ParseMinutes(sbs[i].endTime) - ParseMinutes(sbs[i].startTime))
                        * SECONDS_PER_MINUTE)
               ELSE s

RECURSIVE TriggerFrom(_, _, _, _)
\* for (const sb of settings.scheduledBreaks) from index i: the first one to fire returns
TriggerFrom(s, t, sbs, i) ==
  IF i > Len(sbs) THEN s
  ELSE IF ShouldFire(s.currentShift, t, sbs[i])
       THEN FireScheduledBreak(s, t, sbs[i],
              (ParseMinutes(sbs[i].endTime) - ParseMinutes(sbs[i].startTime)) * SECONDS_PER_MINUTE)
       ELSE TriggerFrom(s, t, sbs, i + 1)

checkAndTriggerScheduledBreaks(s, t, cfg) ==
  IF HasStart(s.currentShift) /\ Len(cfg.scheduledBreaks) # 0 /\ s.status = "working"
  THEN TriggerFrom(s, t, cfg.scheduledBreaks, 1)
  ELSE s

\* ------------------------------------------------------------ wageCalculator
\* Money: baseWage is in whole currency units, a rate is in hundredths of a unit
\* per hour (baseWage * (totalPercentage / 100) is baseWage * totalPercentage
\* hundredths) and earnings are in hundredths after toFixed(2).
\* wageCalculator.ts holds two definitions of each exported function.
DefinitionsInFile == {"first", "second"}

getHours(t) == (t % MS_PER_DAY) \div (MINUTES_PER_HOUR * MS_PER_MINUTE)
getMinutes(t) == ((t % MS_PER_DAY) \div MS_PER_MINUTE) % MINUTES_PER_HOUR

\* settings.dayAllowances[dayOfWeek] || 100 : an absent entry and 0 are both falsy
dayAllowancePercent(t, cfg) ==
  LET dayOfWeek == ALL_DAYS[getDay(t) + 1]
  IN IF dayOfWeek \in DOMAIN cfg.dayAllowances /\ cfg.dayAllowances[dayOfWeek] # 0
     THEN cfg.dayAllowances[dayOfWeek]
     ELSE DEFAULT_DAY_PERCENT

RECURSIVE hourlyBonusPercent(_, _, _, _)
\* first definition: the loop over settings.hourlyAllowances from index i
hourlyBonusPercent(t, has, i, acc) ==
  IF i > Len(has) THEN acc
  ELSE LET currentTimeInMinutes == getHours(t) * MINUTES_PER_HOUR + getMinutes(t)
           allowanceStartMinutes == ParseMinutes(has[i].startTime)
           allowanceEndMinutes == ParseMinutes(has[i].endTime)
       IN hourlyBonusPercent(t, has, i + 1,
            IF currentTimeInMinutes >= allowanceStartMinutes
               /\ currentTimeInMinutes < allowanceEndMinutes
            THEN Max(acc, has[i].percentage) ELSE acc)

\* a <= b on zero-padded "HH:MM" strings
StringLeq(a, b) == a.hh < b.hh \/ (a.hh = b.hh /\ a.mm <= b.mm)

RECURSIVE hourlyBonusPercent2(_, _, _, _)
\* second definition: currentTime >= ha.startTime && currentTime <= ha.endTime
hourlyBonusPercent2(t, has, i, acc) ==
  IF i > Len(has) THEN acc
  ELSE LET currentTime == [hh |-> getHours(t), mm |-> getMinutes(t)]
       IN hourlyBonusPercent2(t, has, i + 1,
            IF StringLeq(has[i].startTime, currentTime) /\ StringLeq(currentTime, has[i].endTime)
            THEN Max(acc, has[i].percentage) ELSE acc)

\* first definition in the file
getEffectiveHourlyRate(t, cfg) ==
  LET totalPercentage == dayAllowancePercent(t, cfg)
                           + hourlyBonusPercent(t, cfg.hourlyAllowances, 1, 0)
  IN [rate |-> cfg.baseWage * totalPercentage, percentage |-> totalPercentage]

\* second definition in the file
getEffectiveHourlyRate2(t, cfg) ==
  LET totalPercentage == dayAllowancePercent(t, cfg)
                           + hourlyBonusPercent2(t, cfg.hourlyAllowances, 1, 0)
  IN [rate |-> cfg.baseWage * totalPercentage, percentage |-> totalPercentage]

\* toFixed(2) of (sum of rates) / 60, in hundredths
toFixed2(sumOfRates) == (2 * sumOfRates + MINUTES_PER_HOUR) \div (2 * MINUTES_PER_HOUR)

\* Faulty variant: an open break never covers a minute, live or not
onRecordedBreak_openCoversNothing(shift, isLiveCalculation, nowMs, t) ==
  \E i \in 1..Len(shift.breaks) :
     LET br == shift.breaks[i]
         breakEndTime == IF br.endTime # NO_END THEN br.endTime ELSE t
     IN t >= br.startTime /\ t < breakEndTime

\* first definition: is minute t inside a break of shift.breaks?
onRecordedBreak(shift, isLiveCalculation, nowMs, t) ==
  \E i \in 1..Len(shift.breaks) :
     LET br == shift.breaks[i]
         breakEndTime ==
           IF isLiveCalculation /\ br.endTime = NO_END
              /\ br.startTime = shift.breaks[Len(shift.breaks)].startTime
           THEN nowMs
           ELSE IF br.endTime # NO_END THEN br.endTime ELSE t
     IN t >= br.startTime /\ t < breakEndTime

\* second definition: a break without endTime lasts until Date.now()
onRecordedBreak2(shift, isLiveCalculation, nowMs, t) ==
  \E i \in 1..Len(shift.breaks) :
     LET br == shift.breaks[i]
         breakEndTime == IF br.endTime # NO_END THEN br.endTime ELSE nowMs
     IN t >= br.startTime /\ t < breakEndTime

\* first definition: is minute t inside a scheduled break of the settings?
onScheduledBreak(cfg, t) ==
  \E i \in 1..Len(cfg.scheduledBreaks) :
     LET sb == cfg.scheduledBreaks[i]
         currentIterTimeInMinutes == getHours(t) * MINUTES_PER_HOUR + getMinutes(t)
     IN /\ ALL_DAYS[getDay(t) + 1] \in sb.days
        /\ currentIterTimeInMinutes >= ParseMinutes(sb.startTime)
        /\ currentIterTimeInMinutes < ParseMinutes(sb.endTime)

RECURSIVE sumOfRates_wholeMinutesOnly(_, _, _, _, _, _)
\* Faulty variant: only the minutes completed before endTime are walked
sumOfRates_wholeMinutesOnly(shift, cfg, isLiveCalculation, nowMs, endTime, t) ==
  IF t + MS_PER_MINUTE > endTime THEN 0
  ELSE (IF onRecordedBreak(shift, isLiveCalculation, nowMs, t) \/ onScheduledBreak(cfg, t)
        THEN 0 ELSE getEffectiveHourlyRate(t, cfg).rate)
       + sumOfRates_wholeMinutesOnly(shift, cfg, isLiveCalculation, nowMs, endTime,
                                     t + MS_PER_MINUTE)

RECURSIVE sumOfRates(_, _, _, _, _, _)
\* first definition: for (let t = ...; t < endTime; t += 60000), the rates of the paid minutes
sumOfRates(shift, cfg, isLiveCalculation, nowMs, endTime, t) ==
  IF t >= endTime THEN 0
  ELSE (IF onRecordedBreak(shift, isLiveCalculation, nowMs, t) \/ onScheduledBreak(cfg, t)
        THEN 0 ELSE getEffectiveHourlyRate(t, cfg).rate)
       + sumOfRates(shift, cfg, isLiveCalculation, nowMs, endTime, t + MS_PER_MINUTE)

RECURSIVE sumOfRates2(_, _, _, _, _, _)
\* second definition of the same loop
sumOfRates2(shift, cfg, isLiveCalculation, nowMs, endTime, t) ==
  IF t >= endTime THEN 0
  ELSE (IF onRecordedBreak2(shift, isLiveCalculation, nowMs, t)
        THEN 0 ELSE getEffectiveHourlyRate2(t, cfg).rate)
       + sumOfRates2(shift, cfg, isLiveCalculation, nowMs, endTime, t + MS_PER_MINUTE)

NoEarnings == [totalEarnings |-> 0, finalEffectiveRate |-> 0, finalTotalPercentage |-> 0]

\* Faulty variant: the minutes are paid at the base wage the shift started with
calculateShiftEarnings_wageAtStart(shift, cfg, isLiveCalculation, nowMs) ==
  IF shift.startTime = 0 THEN NoEarnings
  ELSE LET endTime == IF isLiveCalculation \/ shift.endTime = NO_END
                      THEN nowMs ELSE shift.endTime
           atStart == [cfg EXCEPT !.baseWage = shift.baseWageAtStart]
           finalRateDetails == getEffectiveHourlyRate(Max(shift.startTime, endTime - 1), cfg)
       IN [totalEarnings |->
             toFixed2(sumOfRates(shift, atStart, isLiveCalculation, nowMs, endTime,
                                 shift.startTime)),
           finalEffectiveRate |-> finalRateDetails.rate,
           finalTotalPercentage |-> finalRateDetails.percentage]

\* first definition in the file
calculateShiftEarnings(shift, cfg, isLiveCalculation, nowMs) ==
  IF shift.startTime = 0 THEN NoEarnings
  ELSE LET endTime == IF isLiveCalculation \/ shift.endTime = NO_END
                      THEN nowMs ELSE shift.endTime
           finalRateDetails == getEffectiveHourlyRate(Max(shift.startTime, endTime - 1), cfg)
       IN [totalEarnings |->
             toFixed2(sumOfRates(shift, cfg, isLiveCalculation, nowMs, endTime, shift.startTime)),
           finalEffectiveRate |-> finalRateDetails.rate,
           finalTotalPercentage |-> finalRateDetails.percentage]

\* second definition in the file
calculateShiftEarnings2(shift, cfg, isLiveCalculation, nowMs) ==
  IF shift.startTime = 0 THEN NoEarnings
  ELSE LET endTime == IF isLiveCalculation \/ shift.endTime = NO_END
                      THEN nowMs ELSE shift.endTime
           finalRateDetails == getEffectiveHourlyRate2(endTime - 1, cfg)
       IN [totalEarnings |->
             toFixed2(sumOfRates2(shift, cfg, isLiveCalculation, nowMs, endTime, shift.startTime)),
           finalEffectiveRate |-> finalRateDetails.rate,
           finalTotalPercentage |-> finalRateDetails.percentage]

\* import { calculateShiftEarnings } from '@/lib/wageCalculator': the definition the
\* import is bound to
calculateShiftEarningsImported(shift, cfg, isLiveCalculation, nowMs) ==
  IF wageCalculator = "first"
  THEN calculateShiftEarnings(shift, cfg, isLiveCalculation, nowMs)
  ELSE calculateShiftEarnings2(shift, cfg, isLiveCalculation, nowMs)

\* ------------------------------------------------------------------- tick
RECURSIVE ManualBreakMs(_, _, _, _)
\* totalManualBreakDurationMs over breaks[i..]
ManualBreakMs(breaks, i, st, t) ==
  IF i > Len(breaks) THEN 0
  ELSE LET br == breaks[i]
           breakEndTime == IF br.endTime # NO_END THEN br.endTime
                           ELSE IF st = "on_break" /\ br.startTime = breaks[Len(breaks)].startTime
                                THEN t ELSE 0
           own == IF ~br.isScheduled /\ breakEndTime > br.startTime
                  THEN breakEndTime - br.startTime ELSE 0
       IN own + ManualBreakMs(breaks, i + 1, st, t)

\* Faulty variant: at 0 the break is closed but stays the active one
CountdownStep_keepsInfo(s, t) ==
  IF s.scheduledBreakCountdown = NULL_COUNTDOWN THEN s
  ELSE LET newCountdown == Max(0, s.scheduledBreakCountdown - 1)
           activeBreakInfo == s.currentShift.activeScheduledBreakInfo
       IN IF newCountdown = 0
          THEN [s EXCEPT
                  !.currentShift =
                     IF s.currentShift = Null \/ activeBreakInfo = Null THEN Null
                     ELSE [@ EXCEPT !.breaks = CloseScheduled(@, activeBreakInfo.id, t)],
                  !.status = "working",
                  !.scheduledBreakCountdown = NULL_COUNTDOWN]
          ELSE [s EXCEPT !.scheduledBreakCountdown = newCountdown]

\* the updater passed to setScheduledBreakCountdown while on a scheduled break
CountdownStep(s, t) ==
  IF s.scheduledBreakCountdown = NULL_COUNTDOWN THEN s
  ELSE LET newCountdown == Max(0, s.scheduledBreakCountdown - 1)
           activeBreakInfo == s.currentShift.activeScheduledBreakInfo
       IN IF newCountdown = 0
          THEN [s EXCEPT
                  !.currentShift =
                     IF s.currentShift = Null \/ activeBreakInfo = Null THEN Null
                     ELSE [@ EXCEPT !.breaks = CloseScheduled(@, activeBreakInfo.id, t),
                                    !.activeScheduledBreakInfo = Null],
                  !.status = "working",
                  !.scheduledBreakCountdown = NULL_COUNTDOWN]
          ELSE [s EXCEPT !.scheduledBreakCountdown = newCountdown]

calculateCurrentTimersAndEarnings(s, t, cfg) ==
  IF ~HasStart(s.currentShift) THEN s
  ELSE LET shift == s.currentShift
           tempShiftForCalc == [id |-> shift.id, startTime |-> shift.startTime, endTime |-> t,
                                breaks |-> shift.breaks,
                                baseWageAtStart |-> IF shift.baseWageAtStart # 0
                                                    THEN shift.baseWageAtStart
                                                    ELSE cfg.baseWage]
           live == calculateShiftEarningsImported(tempShiftForCalc, cfg, TRUE, t)
           totalManualBreakDurationMs == ManualBreakMs(shift.breaks, 1, s.status, t)
           grossWorkTimeMs == t - shift.startTime
           activeManualBreak ==
             { i \in 1..Len(shift.breaks) :
                 ~shift.breaks[i].isScheduled /\ IsOpen(shift.breaks[i]) }
           first == CHOOSE i \in activeManualBreak : \A j \in activeManualBreak : i <= j
           s1 == [s EXCEPT
                    !.currentEarnings = live.totalEarnings,
                    !.effectiveHourlyRate = live.finalEffectiveRate,
                    !.elapsedWorkTime =
                       Max(0, (grossWorkTimeMs - totalManualBreakDurationMs) \div MS_PER_SECOND),
                    !.elapsedBreakTime =
                       IF s.status = "on_break"
                       THEN IF activeManualBreak # {}
                            THEN (t - shift.breaks[first].startTime) \div MS_PER_SECOND
                            ELSE @
                       ELSE 0]
       IN IF s.status = "on_scheduled_break" THEN CountdownStep(s1, t) ELSE s1

\* Faulty variant: the scheduled breaks are looked at during a manual break as well
IntervalCallback_checksOnBreak(s, t, cfg) ==
  LET s1 == calculateCurrentTimersAndEarnings(s, t, cfg)
  IN IF s.timerInterval \in {"working", "on_break"} /\ HasStart(s1.currentShift)
     THEN TriggerFrom(s1, t, cfg.scheduledBreaks, 1)
     ELSE s1

\* the setInterval callback
IntervalCallback(s, t, cfg) ==
  LET s1 == calculateCurrentTimersAndEarnings(s, t, cfg)
  IN IF s.timerInterval = "working" THEN checkAndTriggerScheduledBreaks(s1, t, cfg) ELSE s1

\* ---------------------------------------------------------- passive effects
\* the values the effects' dependency arrays are compared on
Deps(s) == [status |-> s.status, currentShift |-> s.currentShift,
            isLoading |-> s.isLoading, unused |-> s.lastUnusedScheduledBreakTime]

\* Faulty variant: the pair is not written while on a manual break
PersistEffect_skipsManualBreak(s) ==
  IF s.isLoading \/ s.status = "on_break" THEN s
  ELSE IF s.status # "idle" /\ s.currentShift # Null
       THEN [s EXCEPT !.localStorage =
               setToLocalStorage(
                 setToLocalStorage(
                   setToLocalStorage(@, "shift", s.currentShift),
                   "status", s.status),
                 "unused", s.lastUnusedScheduledBreakTime)]
       ELSE [s EXCEPT !.localStorage = removeItem(removeItem(@, "shift"), "status")]

\* Faulty variant: the pair is left in storage when the shift is over
PersistEffect_keepsPair(s) ==
  IF s.isLoading THEN s
  ELSE IF s.status # "idle" /\ s.currentShift # Null
       THEN [s EXCEPT !.localStorage =
               setToLocalStorage(
                 setToLocalStorage(
                   setToLocalStorage(@, "shift", s.currentShift),
                   "status", s.status),
                 "unused", s.lastUnusedScheduledBreakTime)]
       ELSE s

\* persistence effect
PersistEffect(s) ==
  IF s.isLoading THEN s
  ELSE IF s.status # "idle" /\ s.currentShift # Null
       THEN [s EXCEPT !.localStorage =
               setToLocalStorage(
                 setToLocalStorage(
                   setToLocalStorage(@, "shift", s.currentShift),
                   "status", s.status),
                 "unused", s.lastUnusedScheduledBreakTime)]
       ELSE [s EXCEPT !.localStorage = removeItem(removeItem(@, "shift"), "status")]

\* timer effect: its cleanup, then its body
TimerEffect(s, t, cfg) ==
  IF s.isLoading THEN [s EXCEPT !.timerInterval = "null"]
  ELSE IF s.status \in {"working", "on_break", "on_scheduled_break"}
       THEN LET s1 == calculateCurrentTimersAndEarnings(s, t, cfg)
                s2 == IF s.status = "working"
                      THEN checkAndTriggerScheduledBreaks(s1, t, cfg) ELSE s1
            IN [s2 EXCEPT !.timerInterval = s.status]
       ELSE IF s.currentShift = Null
            THEN [s EXCEPT !.timerInterval = "null",
                           !.elapsedWorkTime = 0,
                           !.elapsedBreakTime = 0,
                           !.currentEarnings = 0,
                           !.effectiveHourlyRate = 0,
                           !.scheduledBreakCountdown = NULL_COUNTDOWN]
            ELSE [s EXCEPT !.timerInterval = "null"]

\* clearInterval(id): the first live timer with that id goes, an unknown id is ignored
ClearInterval(tbl, id) ==
  LET found == { i \in 1..Len(tbl) : tbl[i] = id }
      k == CHOOSE i \in found : \A j \in found : i <= j
  IN IF found = {} THEN tbl ELSE SubSeq(tbl, 1, k - 1) \o SubSeq(tbl, k + 1, Len(tbl))

\* Faulty variant: the effect returns no cleanup
TimerCleanup_none(tbl, d) == tbl

\* the cleanup the timer effect returned when it last ran with dependencies d
TimerCleanup(tbl, d) ==
  IF ~d.isLoading /\ d.status \in {"working", "on_break", "on_scheduled_break"}
  THEN ClearInterval(tbl, d.status)
  ELSE tbl

\* the live timers after the timer effect of commit s: its cleanup, then its body
TimerTable(s, d, tbl) ==
  LET timerDepsChanged == \/ s.status # d.status
                          \/ s.isLoading # d.isLoading
                          \/ s.currentShift # d.currentShift
      cleaned == TimerCleanup(tbl, d)
  IN IF ~timerDepsChanged THEN tbl
     ELSE IF s.isLoading THEN ClearInterval(cleaned, s.timerInterval)
     ELSE IF s.status \in {"working", "on_break", "on_scheduled_break"}
          THEN Append(cleaned, s.status)
          ELSE ClearInterval(cleaned, s.timerInterval)

\* the effects of one commit, in declaration order; d are the dependencies of the last run
EffectsOf(s, d, t, cfg) ==
  LET s1 == IF Deps(s) # d THEN PersistEffect(s) ELSE s
      timerDepsChanged == \/ s.status # d.status
                          \/ s.isLoading # d.isLoading
                          \/ s.currentShift # d.currentShift
  IN IF timerDepsChanged THEN TimerEffect(s1, t, cfg) ELSE s1

\* ------------------------------------------------------------------ recovery
\* Faulty variant: the countdown restarts from the full duration
RemainingCountdown_fullDuration(breakInstanceStartTimeMs, originalDurationSec, nowMs) ==
  originalDurationSec

\* remainingCountdownSec of the recovery effect
RemainingCountdown(breakInstanceStartTimeMs, originalDurationSec, nowMs) ==
  LET expectedBreakEndTimeMs == breakInstanceStartTimeMs + originalDurationSec * MS_PER_SECOND
  IN Max(0, (expectedBreakEndTimeMs - nowMs) \div MS_PER_SECOND)

Recovery(s, t) ==
  LET persistedShift == getFromLocalStorage(s.localStorage, "shift", Null)
      persistedStatus == getFromLocalStorage(s.localStorage, "status", "null")
      persistedUnusedTime == getFromLocalStorage(s.localStorage, "unused", DEFAULT_UNUSED)
      s0 == [s EXCEPT !.lastUnusedScheduledBreakTime = persistedUnusedTime, !.isLoading = FALSE]
  IN IF HasStart(persistedShift) /\ persistedStatus # "null" /\ persistedStatus # "idle"
     THEN LET s1 == [s0 EXCEPT !.currentShift = persistedShift, !.status = persistedStatus]
              info == persistedShift.activeScheduledBreakInfo
          IN IF persistedStatus = "on_scheduled_break" /\ info # Null
             THEN LET matching == { i \in 1..Len(persistedShift.breaks) :
                                      IsOpenScheduled(persistedShift.breaks[i], info.id) }
                      i0 == CHOOSE i \in matching : \A j \in matching : i <= j
                      breakInstanceStartTimeMs == persistedShift.breaks[i0].startTime
                      remainingCountdownSec ==
                        RemainingCountdown(breakInstanceStartTimeMs,
                                           info.originalDurationSeconds, t)
                  IN IF matching # {}
                     THEN [s1 EXCEPT !.scheduledBreakCountdown = remainingCountdownSec]
                     ELSE [s1 EXCEPT !.status = "working",
                                     !.currentShift = [@ EXCEPT !.activeScheduledBreakInfo = Null],
                                     !.scheduledBreakCountdown = NULL_COUNTDOWN]
             ELSE s1
     ELSE s0

\* ------------------------------------------------------------------ commands
\* Faulty variant: the command is not held back while loading
startShift_whileLoading(s, t, cfg) ==
  IF s.status # "idle" THEN s
  ELSE [s EXCEPT
          !.currentShift = [id |-> t, startTime |-> t, breaks |-> <<>>,
                            baseWageAtStart |-> cfg.baseWage,
                            activeScheduledBreakInfo |-> Null],
          !.status = "working",
          !.elapsedWorkTime = 0,
          !.elapsedBreakTime = 0,
          !.currentEarnings = 0,
          !.scheduledBreakCountdown = NULL_COUNTDOWN,
          !.lastUnusedScheduledBreakTime = 0,
          !.localStorage = setToLocalStorage(@, "unused", 0)]

\* Faulty variant: the banked seconds are left in storage
startShift_keepsStoredBank(s, t, cfg) ==
  IF s.status # "idle" \/ s.isLoading THEN s
  ELSE [s EXCEPT
          !.currentShift = [id |-> t, startTime |-> t, breaks |-> <<>>,
                            baseWageAtStart |-> cfg.baseWage,
                            activeScheduledBreakInfo |-> Null],
          !.status = "working",
          !.elapsedWorkTime = 0,
          !.elapsedBreakTime = 0,
          !.currentEarnings = 0,
          !.scheduledBreakCountdown = NULL_COUNTDOWN,
          !.lastUnusedScheduledBreakTime = 0]

startShift(s, t, cfg) ==
  IF s.status # "idle" \/ s.isLoading THEN s
  ELSE [s EXCEPT
          !.currentShift = [id |-> t, startTime |-> t, breaks |-> <<>>,
                            baseWageAtStart |-> cfg.baseWage,
                            activeScheduledBreakInfo |-> Null],
          !.status = "working",
          !.elapsedWorkTime = 0,
          !.elapsedBreakTime = 0,
          !.currentEarnings = 0,
          !.scheduledBreakCountdown = NULL_COUNTDOWN,
          !.lastUnusedScheduledBreakTime = 0,
          !.localStorage = setToLocalStorage(@, "unused", 0)]

\* Faulty variant: the last break is left as it is
ForceCloseLast_leavesOpen(breaks, st, t) == breaks

\* endShift: "Ensure any active break (manual or scheduled) is ended"
ForceCloseLast(breaks, st, t) ==
  LET lastBreakIndex == Len(breaks)
  IN IF st \in {"on_break", "on_scheduled_break"} /\ lastBreakIndex > 0
        /\ IsOpen(breaks[lastBreakIndex])
     THEN [breaks EXCEPT ![lastBreakIndex].endTime = t]
     ELSE breaks

\* Faulty variant: the field is written whatever the bank holds
UnusedField_always(unusedTimeForThisShift) == Item(unusedTimeForThisShift)

\* unusedTimeForThisShift > 0 ? unusedTimeForThisShift : undefined
UnusedField(unusedTimeForThisShift) ==
  IF unusedTimeForThisShift > 0 THEN Item(unusedTimeForThisShift) ELSE Absent

\* const { ..., name } = obj : undefined when obj has no such property
Destructure(obj, name) == IF name \in DOMAIN obj THEN Item(obj[name]) ELSE Absent

\* Faulty variant: the snapshot is kept when the shift ends
endShift_keepsSnapshot(s, t, cfg) ==
  IF s.status = "idle" \/ ~HasStart(s.currentShift) \/ s.isLoading THEN s
  ELSE LET proto == s.currentShift
           breaks == ForceCloseLast(proto.breaks, s.status, t)
           shiftForCalc == [id |-> proto.id, startTime |-> proto.startTime, endTime |-> t,
                            breaks |-> breaks,
                            baseWageAtStart |-> IF proto.baseWageAtStart # 0
                                                THEN proto.baseWageAtStart ELSE cfg.baseWage]
           returned == calculateShiftEarningsImported(shiftForCalc, cfg, FALSE, t)
           finalShift == [id |-> shiftForCalc.id, startTime |-> shiftForCalc.startTime,
                          endTime |-> shiftForCalc.endTime, breaks |-> shiftForCalc.breaks,
                          baseWageAtStart |-> shiftForCalc.baseWageAtStart,
                          totalEarnings |-> returned.totalEarnings,
                          rateSegments |-> Destructure(returned, "rateSegments"),
                          unusedScheduledBreakSeconds |->
                            UnusedField(s.lastUnusedScheduledBreakTime)]
       IN [s EXCEPT !.workHistory = <<finalShift>> \o @,
                    !.status = "idle",
                    !.lastUnusedScheduledBreakTime = 0]

endShift(s, t, cfg) ==
  IF s.status = "idle" \/ ~HasStart(s.currentShift) \/ s.isLoading THEN s
  ELSE LET proto == s.currentShift
           breaks == ForceCloseLast(proto.breaks, s.status, t)
           shiftForCalc == [id |-> proto.id, startTime |-> proto.startTime, endTime |-> t,
                            breaks |-> breaks,
                            baseWageAtStart |-> IF proto.baseWageAtStart # 0
                                                THEN proto.baseWageAtStart ELSE cfg.baseWage]
           returned == calculateShiftEarningsImported(shiftForCalc, cfg, FALSE, t)
           unusedTimeForThisShift == s.lastUnusedScheduledBreakTime
           finalShift == [id |-> shiftForCalc.id, startTime |-> shiftForCalc.startTime,
                          endTime |-> shiftForCalc.endTime, breaks |-> shiftForCalc.breaks,
                          baseWageAtStart |-> shiftForCalc.baseWageAtStart,
                          totalEarnings |-> returned.totalEarnings,
                          rateSegments |-> Destructure(returned, "rateSegments"),
                          unusedScheduledBreakSeconds |-> UnusedField(unusedTimeForThisShift)]
       IN [s EXCEPT !.workHistory = <<finalShift>> \o @,
                    !.status = "idle",
                    !.currentShift = Null,
                    !.lastUnusedScheduledBreakTime = 0]

\* Faulty variant: the new interval replaces the list
startManualBreak_replacesBreaks(s, t, cfg) ==
  IF s.status # "working" \/ s.currentShift = Null \/ s.isLoading THEN s
  ELSE [s EXCEPT
          !.currentShift = [@ EXCEPT !.breaks =
             <<[startTime |-> t, endTime |-> NO_END, isScheduled |-> FALSE,
                scheduledBreakId |-> "", scheduledBreakName |-> ""]>>],
          !.status = "on_break",
          !.elapsedBreakTime = 0]

\* Faulty variant: the status is not checked
startManualBreak_anyStatus(s, t, cfg) ==
  IF s.isLoading THEN s
  ELSE [s EXCEPT
          !.currentShift =
             IF @ = Null THEN Null
             ELSE [@ EXCEPT !.breaks =
                     Append(@, [startTime |-> t, endTime |-> NO_END, isScheduled |-> FALSE,
                                scheduledBreakId |-> "", scheduledBreakName |-> ""])],
          !.status = "on_break",
          !.elapsedBreakTime = 0]

startManualBreak(s, t, cfg) ==
  IF s.status # "working" \/ s.currentShift = Null \/ s.isLoading THEN s
  ELSE [s EXCEPT
          !.currentShift = [@ EXCEPT !.breaks =
             Append(@, [startTime |-> t, endTime |-> NO_END, isScheduled |-> FALSE,
                        scheduledBreakId |-> "", scheduledBreakName |-> ""])],
          !.status = "on_break",
          !.elapsedBreakTime = 0]

\* Faulty variant: every open record is closed, not only the last
endManualBreak_closesAll(s, t, cfg) ==
  IF s.status # "on_break" \/ s.currentShift = Null \/ Len(s.currentShift.breaks) = 0
     \/ s.isLoading
  THEN s
  ELSE [s EXCEPT
          !.currentShift = [@ EXCEPT !.breaks =
             [i \in 1..Len(@) |-> [@[i] EXCEPT !.endTime = t]]],
          !.status = "working"]

endManualBreak(s, t, cfg) ==
  IF s.status # "on_break" \/ s.currentShift = Null \/ Len(s.currentShift.breaks) = 0
     \/ s.isLoading
  THEN s
  ELSE [s EXCEPT
          !.currentShift = [@ EXCEPT !.breaks =
             [i \in 1..Len(@) |->
                IF i = Len(@) /\ ~@[i].isScheduled /\ IsOpen(@[i])
                THEN [@[i] EXCEPT !.endTime = t] ELSE @[i]]],
          !.status = "working"]

\* Faulty variant: the countdown is left running after the break is ended early
endScheduledBreakEarly_keepsCountdown(s, t, cfg) ==
  IF s.status # "on_scheduled_break" \/ s.currentShift = Null
     \/ s.currentShift.activeScheduledBreakInfo = Null
     \/ s.scheduledBreakCountdown = NULL_COUNTDOWN \/ s.isLoading
  THEN s
  ELSE LET remainingTime == s.scheduledBreakCountdown
           newUnusedTime == s.lastUnusedScheduledBreakTime + remainingTime
           s1 == IF remainingTime > 0
                 THEN [s EXCEPT !.lastUnusedScheduledBreakTime = newUnusedTime,
                                !.localStorage = setToLocalStorage(@, "unused", newUnusedTime)]
                 ELSE s
           activeBreakId == s.currentShift.activeScheduledBreakInfo.id
       IN [s1 EXCEPT
             !.currentShift = [@ EXCEPT !.breaks = CloseScheduled(@, activeBreakId, t),
                                        !.activeScheduledBreakInfo = Null],
             !.status = "working"]

endScheduledBreakEarly(s, t, cfg) ==
  IF s.status # "on_scheduled_break" \/ s.currentShift = Null
     \/ s.currentShift.activeScheduledBreakInfo = Null
     \/ s.scheduledBreakCountdown = NULL_COUNTDOWN \/ s.isLoading
  THEN s
  ELSE LET remainingTime == s.scheduledBreakCountdown
           newUnusedTime == s.lastUnusedScheduledBreakTime + remainingTime
           s1 == IF remainingTime > 0
                 THEN [s EXCEPT !.lastUnusedScheduledBreakTime = newUnusedTime,
                                !.localStorage = setToLocalStorage(@, "unused", newUnusedTime)]
                 ELSE s
           activeBreakId == s.currentShift.activeScheduledBreakInfo.id
       IN [s1 EXCEPT
             !.currentShift = [@ EXCEPT !.breaks = CloseScheduled(@, activeBreakId, t),
                                        !.activeScheduledBreakInfo = Null],
             !.status = "working",
             !.scheduledBreakCountdown = NULL_COUNTDOWN]

\* Faulty variant: the banked seconds stay in storage
resetActiveShift_keepsUnused(s, t, cfg) ==
  IF s.isLoading THEN s
  ELSE [s EXCEPT
          !.status = "idle",
          !.currentShift = Null,
          !.lastUnusedScheduledBreakTime = 0,
          !.localStorage = removeItem(removeItem(@, "shift"), "status")]

resetActiveShift(s, t, cfg) ==
  IF s.isLoading THEN s
  ELSE [s EXCEPT
          !.status = "idle",
          !.currentShift = Null,
          !.lastUnusedScheduledBreakTime = 0,
          !.localStorage = removeItem(removeItem(removeItem(@, "shift"), "status"), "unused")]

\* --------------------------------------------------------------- environment
\* Stores a process can be started over when a write of the (snapshot, state) pair
\* was cut short or the store was edited: the state key says 'on_scheduled_break'
\* over a snapshot without the open record of that break.
ForeignShift(info, breaks) ==
  [id |-> 20000, startTime |-> 20000, breaks |-> breaks, baseWageAtStart |-> 10,
   activeScheduledBreakInfo |-> info]

InfoA == [id |-> "A", name |-> "Lunch", originalDurationSeconds |-> 60,
          scheduledStartTime |-> [hh |-> 0, mm |-> 1],
          scheduledEndTime |-> [hh |-> 0, mm |-> 2]]

ManualClosed == [startTime |-> 21000, endTime |-> 22000, isScheduled |-> FALSE,
                 scheduledBreakId |-> "", scheduledBreakName |-> ""]

AutoClosed == [startTime |-> 21000, endTime |-> 22000, isScheduled |-> TRUE,
               scheduledBreakId |-> "A", scheduledBreakName |-> "Lunch"]

ForeignStores ==
  { [shift |-> Item(ForeignShift(Null, <<AutoClosed>>)),
     status |-> Item("on_scheduled_break"), unused |-> Absent],
    [shift |-> Item(ForeignShift(InfoA, <<ManualClosed>>)),
     status |-> Item("on_scheduled_break"), unused |-> Item(0)] }

EffectsPending == Deps(St) # effectDeps
UserActive == ~EffectsPending /\ now \in UserTimes

Op(name) == name

\* no wageCalculator call is under study
NoCall == [none |-> TRUE]

\* ---------------------------------------------------------------------- Init
InitOver(stores) ==
  /\ settings \in Configs
  /\ now \in StartTimes
  /\ status = "idle"
  /\ currentShift = Null
  /\ elapsedWorkTime = 0
  /\ elapsedBreakTime = 0
  /\ scheduledBreakCountdown = NULL_COUNTDOWN
  /\ lastUnusedScheduledBreakTime = 0
  /\ isLoading = TRUE
  /\ timerInterval = "null"
  /\ localStorage \in stores
  /\ workHistory = <<>>
  /\ effectDeps = Deps(InitialState(EmptyStorage, <<>>))
  /\ lastOp = "mount"
  /\ stopped = [status |-> "idle", currentShift |-> Null]
  /\ earlyBanks = 0
  /\ ticks = 0
  /\ intervals = <<>>
  /\ currentEarnings = 0
  /\ effectiveHourlyRate = 0
  /\ wageCalculator \in DefinitionsInFile
  /\ call = NoCall
  /\ result = NoCall

\* first start of a fresh installation
Init == InitOver({EmptyStorage})

\* first start over a store left by a cut-short write
InitForeign == InitOver(ForeignStores)

\* ------------------------------------------------------------------- actions
Ghosts == <<settings, ticks, wageCalculator, call, result>>
Fixed == <<settings, wageCalculator, call, result>>

\* the recovery effect, run once when loading ends
Recover ==
  /\ isLoading
  /\ Commit(Recovery(St, now))
  /\ lastOp' = Op("recover")
  /\ stopped' = [status |-> "idle", currentShift |-> Null]
  /\ UNCHANGED <<now, effectDeps, earlyBanks, intervals, Ghosts>>

\* the passive effects of the last commit
RunEffects ==
  /\ EffectsPending
  /\ Commit(EffectsOf(St, effectDeps, now, settings))
  /\ effectDeps' = Deps(St)
  /\ intervals' = TimerTable(St, effectDeps, intervals)
  /\ lastOp' = Op("effects")
  /\ UNCHANGED <<now, earlyBanks, stopped, Ghosts>>

\* one second passes and the interval callback runs
Tick ==
  /\ ~EffectsPending
  /\ ticks < MaxTicks
  /\ ticks' = ticks + 1
  /\ now' = now + TICK_MS
  /\ \E i \in 1..Len(intervals) :
        Commit(IntervalCallback([St EXCEPT !.timerInterval = intervals[i]], now', settings))
  /\ lastOp' = Op("tick")
  /\ UNCHANGED <<effectDeps, earlyBanks, stopped, intervals, Fixed>>

\* one second passes with no interval scheduled (loading itself takes no time)
Wait ==
  /\ ~EffectsPending
  /\ ~isLoading
  /\ intervals = <<>>
  /\ ticks < MaxTicks
  /\ ticks' = ticks + 1
  /\ now' = now + TICK_MS
  /\ lastOp' = Op("wait")
  /\ UNCHANGED <<status, currentShift, elapsedWorkTime, elapsedBreakTime,
                 scheduledBreakCountdown, lastUnusedScheduledBreakTime, isLoading,
                 timerInterval, localStorage, workHistory, effectDeps, earlyBanks, stopped,
                 intervals, currentEarnings, effectiveHourlyRate, Fixed>>

StartShift ==
  /\ UserActive
  /\ Commit(startShift(St, now, settings))
  /\ lastOp' = Op("startShift")
  /\ earlyBanks' = IF status' # status THEN 0 ELSE earlyBanks
  /\ UNCHANGED <<now, effectDeps, stopped, intervals, Ghosts>>

EndShift ==
  /\ UserActive
  /\ status = "idle" \/ Len(workHistory) < MaxHistory
  /\ Commit(endShift(St, now, settings))
  /\ lastOp' = Op("endShift")
  /\ UNCHANGED <<now, effectDeps, earlyBanks, stopped, intervals, Ghosts>>

ManualBreaksOf(shift) ==
  IF shift = Null THEN 0
  ELSE Cardinality({ i \in 1..Len(shift.breaks) : ~shift.breaks[i].isScheduled })

StartManualBreak ==
  /\ UserActive
  /\ status # "working" \/ ManualBreaksOf(currentShift) < MaxManualBreaks
  /\ Commit(startManualBreak(St, now, settings))
  /\ lastOp' = Op("startManualBreak")
  /\ UNCHANGED <<now, effectDeps, earlyBanks, stopped, intervals, Ghosts>>

EndManualBreak ==
  /\ UserActive
  /\ Commit(endManualBreak(St, now, settings))
  /\ lastOp' = Op("endManualBreak")
  /\ UNCHANGED <<now, effectDeps, earlyBanks, stopped, intervals, Ghosts>>

EndScheduledBreakEarly ==
  /\ UserActive
  /\ Commit(endScheduledBreakEarly(St, now, settings))
  /\ lastOp' = Op("endScheduledBreakEarly")
  /\ earlyBanks' = IF status' # status /\ scheduledBreakCountdown > 0
                   THEN earlyBanks + 1 ELSE earlyBanks
  /\ UNCHANGED <<now, effectDeps, stopped, intervals, Ghosts>>

ResetActiveShift ==
  /\ UserActive
  /\ Commit(resetActiveShift(St, now, settings))
  /\ lastOp' = Op("resetActiveShift")
  /\ UNCHANGED <<now, effectDeps, earlyBanks, stopped, intervals, Ghosts>>

\* the provider is unmounted (the effect cleanups run), `delay` ms pass, and it is
\* mounted again over the stores it left
Restart(delay) ==
  /\ ~EffectsPending
  /\ now \in RestartTimes
  /\ ~isLoading
  /\ Commit(InitialState(localStorage, workHistory))
  /\ effectDeps' = Deps(InitialState(EmptyStorage, <<>>))
  /\ intervals' = TimerCleanup(intervals, effectDeps)
  /\ now' = now + delay
  /\ stopped' = [status |-> status, currentShift |-> currentShift]
  /\ lastOp' = Op("restart")
  /\ UNCHANGED <<earlyBanks, Ghosts>>

Next ==
  \/ Recover
  \/ RunEffects
  \/ Tick
  \/ Wait
  \/ StartShift
  \/ EndShift
  \/ StartManualBreak
  \/ EndManualBreak
  \/ EndScheduledBreakEarly
  \/ ResetActiveShift
  \/ \E delay \in RestartDelays : Restart(delay)

Spec == Init /\ [][Next]_vars

SpecForeign == InitForeign /\ [][Next]_vars

\* ------------------------------------------- a click before the next render
\* The interval callback only queues its state updates; React renders them in a
\* later task.  A click dispatched in between runs the handler of the last render:
\* its guard reads the `status` and the currentShiftRef of that render, and its
\* updates are queued behind the callback's.
startManualBreakOver(rendered, queued, t) ==
  IF rendered.status # "working" \/ rendered.currentShift = Null \/ rendered.isLoading
  THEN queued
  ELSE [queued EXCEPT
          !.currentShift =
             IF @ = Null THEN Null
             ELSE [@ EXCEPT !.breaks =
                     Append(@, [startTime |-> t, endTime |-> NO_END, isScheduled |-> FALSE,
                                scheduledBreakId |-> "", scheduledBreakName |-> ""])],
          !.status = "on_break",
          !.elapsedBreakTime = 0]

\* a tick whose callback changes the status, and startManualBreak clicked before
\* React has rendered the callback's updates
StartManualBreakBeforeRender ==
  /\ ~EffectsPending
  /\ ticks < MaxTicks
  /\ status = "working"
  /\ ManualBreaksOf(currentShift) < MaxManualBreaks
  /\ ticks' = ticks + 1
  /\ now' = now + TICK_MS
  /\ \E i \in 1..Len(intervals) :
        LET queued == IntervalCallback([St EXCEPT !.timerInterval = intervals[i]],
                                       now', settings)
        IN /\ queued.status # status
           /\ Commit(startManualBreakOver(St, queued, now'))
  /\ lastOp' = Op("startManualBreakBeforeRender")
  /\ UNCHANGED <<effectDeps, earlyBanks, stopped, intervals, Fixed>>

NextInterleaved == Next \/ StartManualBreakBeforeRender

SpecInterleaved == Init /\ [][NextInterleaved]_vars

\* ------------------------------------------------- the clock is set back
\* when the system clock is set back, and by how much
ClockSetBackTimes == {59000, 63000}
ClockSetBacks == {5000}

\* Date.now() drops by d between two ticks
ClockSetBack ==
  /\ ~EffectsPending
  /\ ~isLoading
  /\ now \in ClockSetBackTimes
  /\ ticks < MaxTicks
  /\ ticks' = ticks + 1
  /\ \E d \in ClockSetBacks : now' = now - d
  /\ lastOp' = Op("clockSetBack")
  /\ UNCHANGED <<status, currentShift, elapsedWorkTime, elapsedBreakTime,
                 scheduledBreakCountdown, lastUnusedScheduledBreakTime, isLoading,
                 timerInterval, localStorage, workHistory, effectDeps, earlyBanks, stopped,
                 intervals, currentEarnings, effectiveHourlyRate, Fixed>>

NextClock == Next \/ ClockSetBack

SpecClock == Init /\ [][NextClock]_vars

\* ------------------------------------------------------- a break counted down
\* the interval callback of a scheduled break that has a countdown, second after
\* second, beyond the MaxTicks seconds in which the user is observed
CountdownTick ==
  /\ ~EffectsPending
  /\ ticks >= MaxTicks
  /\ status = "on_scheduled_break"
  /\ scheduledBreakCountdown # NULL_COUNTDOWN
  /\ now' = now + TICK_MS
  /\ \E i \in 1..Len(intervals) :
        Commit(IntervalCallback([St EXCEPT !.timerInterval = intervals[i]], now', settings))
  /\ lastOp' = Op("tick")
  /\ UNCHANGED <<effectDeps, earlyBanks, stopped, intervals, Ghosts>>

NextLive == Next \/ CountdownTick

\* The steps the scheduling of the browser and of React guarantees, each written
\* on the one variable that tells it apart from every other step of NextLive:
\* a live interval runs its callback a second later (Tick or CountdownTick),
TickDue ==
  /\ ~EffectsPending
  /\ intervals # <<>>
  /\ \/ ticks < MaxTicks
     \/ status = "on_scheduled_break" /\ scheduledBreakCountdown # NULL_COUNTDOWN
  /\ now' = now + TICK_MS

\* a commit is followed by its passive effects (RunEffects),
EffectsDue == EffectsPending /\ effectDeps' = Deps(St)

\* and a mounted provider runs its recovery effect (Recover).
RecoveryDue == isLoading /\ isLoading' = FALSE

Fairness ==
  /\ SF_now(TickDue)
  /\ WF_effectDeps(EffectsDue)
  /\ WF_isLoading(RecoveryDue)

\* first start of a fresh installation, the callbacks and effects running when due
SpecLive == Init /\ [][NextLive]_vars /\ Fairness

\* the same over a store left by a cut-short write
SpecLiveForeign == InitForeign /\ [][NextLive]_vars /\ Fairness

\* ------------------------------------------------- a tab in the background
\* After the MaxTicks seconds in which the user is observed the tab goes to the
\* background: the browser throttles the interval to one callback a minute, and the
\* user comes back now and then to issue a command.
LateTick ==
  /\ ~EffectsPending
  /\ ticks >= MaxTicks
  /\ ticks < MaxTicks + MaxLateTicks
  /\ ticks' = ticks + 1
  /\ now' = now + MS_PER_MINUTE
  /\ \E i \in 1..Len(intervals) :
        Commit(IntervalCallback([St EXCEPT !.timerInterval = intervals[i]], now', settings))
  /\ lastOp' = Op("tick")
  /\ UNCHANGED <<effectDeps, earlyBanks, stopped, intervals, Fixed>>

UserBack == ~EffectsPending /\ ~isLoading /\ ticks > MaxTicks

LateStartManualBreak ==
  /\ UserBack
  /\ status = "working"
  /\ ManualBreaksOf(currentShift) < MaxManualBreaks
  /\ Commit(startManualBreak(St, now, settings))
  /\ lastOp' = Op("startManualBreak")
  /\ UNCHANGED <<now, effectDeps, earlyBanks, stopped, intervals, Ghosts>>

LateEndManualBreak ==
  /\ UserBack
  /\ status = "on_break"
  /\ Commit(endManualBreak(St, now, settings))
  /\ lastOp' = Op("endManualBreak")
  /\ UNCHANGED <<now, effectDeps, earlyBanks, stopped, intervals, Ghosts>>

LateEndShift ==
  /\ UserBack
  /\ status # "idle"
  /\ Len(workHistory) < MaxHistory
  /\ Commit(endShift(St, now, settings))
  /\ lastOp' = Op("endShift")
  /\ UNCHANGED <<now, effectDeps, earlyBanks, stopped, intervals, Ghosts>>

NextThrottled ==
  \/ Next
  \/ LateTick
  \/ LateStartManualBreak
  \/ LateEndManualBreak
  \/ LateEndShift

SpecThrottled == Init /\ [][NextThrottled]_vars

\* ------------------------------------------- the base wage edited mid-shift
\* wages the user may enter on the settings page while the timer is mounted
NewBaseWages == {12}

updateBaseWage(cfg, wage) == [cfg EXCEPT !.baseWage = wage]

\* useSettings() hands the provider the new settings: calculateCurrentTimersAndEarnings
\* and checkAndTriggerScheduledBreaks are re-created, so the timer effect is cleaned
\* up and runs again over the state of the last commit
UpdateBaseWage ==
  /\ UserActive
  /\ ~isLoading
  /\ \E wage \in NewBaseWages :
        /\ wage # settings.baseWage
        /\ settings' = updateBaseWage(settings, wage)
  /\ Commit(TimerEffect(St, now, settings'))
  /\ intervals' =
       LET cleaned == TimerCleanup(intervals, effectDeps)
       IN IF status \in {"working", "on_break", "on_scheduled_break"}
          THEN Append(cleaned, status)
          ELSE ClearInterval(cleaned, timerInterval)
  /\ lastOp' = Op("updateBaseWage")
  /\ UNCHANGED <<now, effectDeps, earlyBanks, stopped, ticks, wageCalculator, call, result>>

NextWage == Next \/ UpdateBaseWage

SpecWage == Init /\ [][NextWage]_vars

\* ------------------------------------------------- wageCalculator studies
\* ---- inputs of the rate resolution study
\* the instant hh:mm:00 of day `day` (0 = the Sunday of model time 0)
At(day, hh, mm) == day * MS_PER_DAY + (hh * MINUTES_PER_HOUR + mm) * MS_PER_MINUTE

Evening == [id |-> "evening", startTime |-> [hh |-> 18, mm |-> 0],
            endTime |-> [hh |-> 22, mm |-> 0], percentage |-> 25]
Night == [id |-> "night", startTime |-> [hh |-> 20, mm |-> 0],
          endTime |-> [hh |-> 23, mm |-> 0], percentage |-> 50]

\* every day at 100, the entry of Sunday absent, 0, 100 or 200
RateDayAllowances ==
  { [d \in {ALL_DAYS[i] : i \in 2..7} |-> 100] }
    \cup { [d \in {ALL_DAYS[i] : i \in 1..7} |-> IF d = "Sunday" THEN v ELSE 100] :
             v \in {0, 100, 200} }

RateConfigs ==
  { [baseWage |-> 10, dayAllowances |-> da, hourlyAllowances |-> has, scheduledBreaks |-> <<>>] :
      da \in RateDayAllowances,
      has \in { <<>>, <<Evening>>, <<Evening, Night>>, <<Night, Evening>> } }

RateInstants ==
  { At(day, hm[1], hm[2]) :
      day \in {0, 1},
      hm \in { <<17, 59>>, <<18, 0>>, <<19, 0>>, <<20, 0>>, <<22, 0>>, <<23, 0>>, <<23, 1>> } }

\* ---- inputs of the earnings study
ShiftOf(start, duration, breaks) ==
  [id |-> start, startTime |-> start, endTime |-> start + duration, breaks |-> breaks,
   baseWageAtStart |-> 10]

ManualBreak(from, to) ==
  [startTime |-> from, endTime |-> to, isScheduled |-> FALSE,
   scheduledBreakId |-> "", scheduledBreakName |-> ""]

ShiftStarts == { At(0, 9, 0), At(0, 9, 0) + 30 * MS_PER_SECOND,
                 At(0, 9, 1) + 30 * MS_PER_SECOND }

EarnShifts ==
  { ShiftOf(st, d, <<>>) :
      st \in ShiftStarts,
      d \in { 0, 30 * MS_PER_SECOND, MS_PER_MINUTE, 90 * MS_PER_SECOND, 2 * MS_PER_MINUTE,
               5 * MS_PER_MINUTE } }
    \cup { ShiftOf(st, 5 * MS_PER_MINUTE,
                   <<ManualBreak(st + MS_PER_MINUTE, st + 3 * MS_PER_MINUTE)>>) :
             st \in ShiftStarts }
    \cup { ShiftOf(st, 20 * MS_PER_MINUTE,
                   <<ManualBreak(st + 5 * MS_PER_MINUTE, st + 10 * MS_PER_MINUTE)>>) :
             st \in ShiftStarts }

MorningBonus == [id |-> "morning", startTime |-> [hh |-> 9, mm |-> 2],
                 endTime |-> [hh |-> 9, mm |-> 4], percentage |-> 25]
CoffeeBreak == [id |-> "coffee", name |-> "Coffee", startTime |-> [hh |-> 9, mm |-> 1],
                endTime |-> [hh |-> 9, mm |-> 3], days |-> {"Sunday"}]

EarnConfigs ==
  { [baseWage |-> w, dayAllowances |-> [defaultDayAllowances EXCEPT !["Sunday"] = m],
     hourlyAllowances |-> has, scheduledBreaks |-> sbs] :
      w \in {10, 12}, m \in {100, 200},
      has \in { <<>>, <<MorningBonus>> }, sbs \in { <<>>, <<CoffeeBreak>> } }

\* the provider plays no part in a call of a pure function
ProviderAtRest ==
  /\ status = "idle"
  /\ currentShift = Null
  /\ elapsedWorkTime = 0
  /\ elapsedBreakTime = 0
  /\ scheduledBreakCountdown = NULL_COUNTDOWN
  /\ lastUnusedScheduledBreakTime = 0
  /\ isLoading = TRUE
  /\ timerInterval = "null"
  /\ localStorage = EmptyStorage
  /\ workHistory = <<>>
  /\ effectDeps = Deps(InitialState(EmptyStorage, <<>>))
  /\ lastOp = "mount"
  /\ stopped = [status |-> "idle", currentShift |-> Null]
  /\ earlyBanks = 0
  /\ ticks = 0
  /\ intervals = <<>>
  /\ currentEarnings = 0
  /\ effectiveHourlyRate = 0

ProviderVars ==
  <<status, currentShift, elapsedWorkTime, elapsedBreakTime, scheduledBreakCountdown,
    lastUnusedScheduledBreakTime, isLoading, timerInterval, localStorage, workHistory,
    effectDeps, lastOp, stopped, earlyBanks, ticks, intervals, currentEarnings,
    effectiveHourlyRate>>

\* resolve: getEffectiveHourlyRate(new Date(now), settings)
InitResolve ==
  /\ ProviderAtRest
  /\ settings \in RateConfigs
  /\ now \in RateInstants
  /\ call \in { [fn |-> "getEffectiveHourlyRate", definition |-> d] : d \in DefinitionsInFile }
  /\ wageCalculator = call.definition
  /\ result = NoCall

Resolve ==
  /\ result = NoCall
  /\ call.fn = "getEffectiveHourlyRate"
  /\ result' = IF call.definition = "first"
               THEN getEffectiveHourlyRate(now, settings)
               ELSE getEffectiveHourlyRate2(now, settings)
  /\ UNCHANGED <<ProviderVars, settings, now, call, wageCalculator>>

SpecResolve == InitResolve /\ [][Resolve]_vars

\* accumulate: calculateShiftEarnings(shift, settings, isLiveCalculation) called at
\* the shift's endTime
InitAccumulate ==
  /\ ProviderAtRest
  /\ settings \in EarnConfigs
  /\ call \in { [fn |-> "calculateShiftEarnings", definition |-> d, shift |-> sh,
                 isLiveCalculation |-> live] :
                  d \in DefinitionsInFile, sh \in EarnShifts, live \in BOOLEAN }
  /\ now = call.shift.endTime
  /\ wageCalculator = call.definition
  /\ result = NoCall

Accumulate ==
  /\ result = NoCall
  /\ call.fn = "calculateShiftEarnings"
  /\ result' = IF call.definition = "first"
               THEN calculateShiftEarnings(call.shift, settings, call.isLiveCalculation, now)
               ELSE calculateShiftEarnings2(call.shift, settings, call.isLiveCalculation, now)
  /\ UNCHANGED <<ProviderVars, settings, now, call, wageCalculator>>

SpecAccumulate == InitAccumulate /\ [][Accumulate]_vars

\* ===================================================================== claims
Commands == {"startShift", "startManualBreak", "endManualBreak",
             "endScheduledBreakEarly", "endShift", "resetActiveShift"}

\* the 'Valid from' column of the transition table
ValidFrom(c, st) ==
  CASE c = "startShift" -> st = "idle"
    [] c = "startManualBreak" -> st = "working"
    [] c = "endManualBreak" -> st = "on_break"
    [] c = "endScheduledBreakEarly" -> st = "on_scheduled_break"
    [] c = "endShift" -> st # "idle"
    [] c = "resetActiveShift" -> st # "idle"

\* what a reader of the store gets back for the three keys
Persisted(store) ==
  [shift |-> store.shift, status |-> store.status,
   unused |-> getFromLocalStorage(store, "unused", DEFAULT_UNUSED)]

OpenIntervals(shift) ==
  IF shift = Null THEN {} ELSE { i \in 1..Len(shift.breaks) : IsOpen(shift.breaks[i]) }
OpenAutomatic(shift) ==
  { i \in OpenIntervals(shift) : shift.breaks[i].isScheduled }

\* the window of sb contains t on an applicable weekday
InWindow(sb, t) ==
  /\ ALL_DAYS[getDay(t) + 1] \in sb.days
  /\ MinutesOfDay(t) >= ParseMinutes(sb.startTime)
  /\ MinutesOfDay(t) < ParseMinutes(sb.endTime)

\* C1: a command invoked in a state outside its 'Valid from' set leaves the timer
\* state, the snapshot, the countdown, the banked seconds, the history and the
\* persisted storage unchanged.
C1_InvalidCommandIsNoOp ==
  [][(lastOp' \in Commands /\ ~ValidFrom(lastOp', status))
       => /\ UNCHANGED <<status, currentShift, scheduledBreakCountdown,
                         lastUnusedScheduledBreakTime, workHistory>>
          /\ Persisted(localStorage') = Persisted(localStorage)]_vars

\* C2: startManualBreak in Idle and endShift in Idle change no observable state.
C2_IdleNoOps ==
  [][(lastOp' \in {"startManualBreak", "endShift"} /\ status = "idle")
       => UNCHANGED <<status, currentShift, scheduledBreakCountdown,
                      lastUnusedScheduledBreakTime, workHistory, localStorage,
                      elapsedWorkTime, elapsedBreakTime, timerInterval>>]_vars

C2_Witness ==
  /\ lastOp \in {"startManualBreak", "endShift"}
  /\ status = "idle"
  /\ ~isLoading
  /\ Len(workHistory) > 0
  /\ currentShift = Null

C4_RestartRoundTrip ==
  [][(lastOp' = "recover")
       => /\ status' = stopped.status
          /\ currentShift' = stopped.currentShift]_vars

C4_Witness ==
  /\ lastOp = "recover"
  /\ status = "on_break"
  /\ currentShift # Null
  /\ Len(currentShift.breaks) >= 1

\* seconds between the start of the open record of the active scheduled break and t
SecondsIntoBreak(shift, t) ==
  LET i == CHOOSE i \in OpenAutomatic(shift) :
             shift.breaks[i].scheduledBreakId = shift.activeScheduledBreakInfo.id
  IN (t - shift.breaks[i].startTime) \div MS_PER_SECOND

HasBackedBreak(shift) ==
  /\ shift # Null
  /\ shift.activeScheduledBreakInfo # Null
  /\ \E i \in OpenAutomatic(shift) :
        shift.breaks[i].scheduledBreakId = shift.activeScheduledBreakInfo.id

C6_DivergenceRepair ==
  (/\ lastOp = "recover"
   /\ localStorage.shift.present
   /\ localStorage.status = Item("on_scheduled_break")
   /\ HasStart(localStorage.shift.value)
   /\ ~HasBackedBreak(localStorage.shift.value))
    => /\ status = "working"
       /\ currentShift # Null
       /\ currentShift.activeScheduledBreakInfo = Null
       /\ scheduledBreakCountdown = NULL_COUNTDOWN

\* two scheduled breaks of the configuration whose windows overlap on one weekday
Overlapping(cfg) ==
  \E i, j \in 1..Len(cfg.scheduledBreaks) :
     /\ i < j
     /\ cfg.scheduledBreaks[i].days \cap cfg.scheduledBreaks[j].days # {}
     /\ ParseMinutes(cfg.scheduledBreaks[i].startTime) < ParseMinutes(cfg.scheduledBreaks[j].endTime)
     /\ ParseMinutes(cfg.scheduledBreaks[j].startTime) < ParseMinutes(cfg.scheduledBreaks[i].endTime)

C8_NoRetriggerSameDay ==
  currentShift # Null =>
    \A i, j \in 1..Len(currentShift.breaks) :
       (/\ i < j
        /\ currentShift.breaks[i].isScheduled
        /\ currentShift.breaks[j].isScheduled
        /\ currentShift.breaks[i].scheduledBreakId = currentShift.breaks[j].scheduledBreakId)
         => toDateString(currentShift.breaks[i].startTime)
              # toDateString(currentShift.breaks[j].startTime)

C8_Witness ==
  /\ status = "working"
  /\ ~EffectsPending
  /\ lastOp \in {"tick", "effects"}
  /\ \E k \in 1..Len(settings.scheduledBreaks) :
        /\ InWindow(settings.scheduledBreaks[k], now)
        /\ Exists(LAMBDA b : /\ b.isScheduled
                             /\ b.scheduledBreakId = settings.scheduledBreaks[k].id
                             /\ ~IsOpen(b)
                             /\ toDateString(b.startTime) = toDateString(now),
                  currentShift.breaks)

\* C9: ending a scheduled break of duration D early, e seconds after it fired,
\* leaves D - e banked seconds.
C9_BanksDurationMinusElapsed ==
  [][(/\ lastOp' = "endScheduledBreakEarly"
      /\ status = "on_scheduled_break"
      /\ status' = "working"
      /\ HasBackedBreak(currentShift)
      /\ SecondsIntoBreak(currentShift, now)
           < currentShift.activeScheduledBreakInfo.originalDurationSeconds)
       => lastUnusedScheduledBreakTime' =
            currentShift.activeScheduledBreakInfo.originalDurationSeconds
              - SecondsIntoBreak(currentShift, now)]_vars

\* C10: after an earlier early end banked seconds, a later early end leaves only
\* its own remaining countdown banked, not the sum.
C10_BankIsNotCumulative ==
  [][(/\ lastOp' = "endScheduledBreakEarly"
      /\ status = "on_scheduled_break"
      /\ status' = "working"
      /\ earlyBanks >= 1)
       => lastUnusedScheduledBreakTime' = scheduledBreakCountdown]_vars

C10_Witness ==
  /\ lastOp = "endScheduledBreakEarly"
  /\ earlyBanks = 2
  /\ status = "working"
  /\ lastUnusedScheduledBreakTime > 0
C12_UnusedFieldOfRecord ==
  [][(lastOp' = "endShift" /\ status # "idle")
       => Head(workHistory').unusedScheduledBreakSeconds =
            IF lastUnusedScheduledBreakTime > 0
            THEN [present |-> TRUE, value |-> lastUnusedScheduledBreakTime]
            ELSE [present |-> FALSE]]_vars

C12_Witness ==
  /\ lastOp = "endShift"
  /\ Len(workHistory) = 1
  /\ effectDeps.unused > 0
  /\ workHistory[1].unusedScheduledBreakSeconds.present
  /\ workHistory[1].unusedScheduledBreakSeconds.value = effectDeps.unused

\* C13: resetActiveShift in a non-idle state drops the snapshot, moves to Idle,
\* leaves the history as it was and clears the persisted snapshot, state and bank.
C13_ResetDiscards ==
  [][(lastOp' = "resetActiveShift" /\ status # "idle")
       => /\ status' = "idle"
          /\ currentShift' = Null
          /\ workHistory' = workHistory
          /\ ~localStorage'.shift.present
          /\ ~localStorage'.status.present
          /\ ~localStorage'.unused.present]_vars

C13_Witness ==
  /\ lastOp = "resetActiveShift"
  /\ status = "idle"
  /\ currentShift = Null
  /\ effectDeps.status = "working"
  /\ effectDeps.unused > 0
  /\ localStorage = EmptyStorage

\* C14: resetActiveShift invoked while loading discards the persisted snapshot, so
\* the recovery that follows ends in Idle with no snapshot.
C14_ResetWhileLoading ==
  [][(isLoading /\ lastOp = "resetActiveShift" /\ lastOp' = "recover")
       => /\ status' = "idle"
          /\ currentShift' = Null
          /\ ~localStorage'.shift.present]_vars

\* C15: once loading is over and the effects of a step have run, the persisted
\* (snapshot, state) pair equals the current snapshot and state in every non-idle
\* state and is absent in Idle.
C15_PersistedPairTracksShift ==
  (~isLoading /\ ~EffectsPending)
    => IF status # "idle"
       THEN /\ localStorage.shift = Item(currentShift)
            /\ localStorage.status = Item(status)
       ELSE /\ ~localStorage.shift.present
            /\ ~localStorage.status.present

C15_Witness ==
  /\ ~isLoading
  /\ ~EffectsPending
  /\ status = "idle"
  /\ Len(workHistory) = 1
  /\ lastOp = "effects"
  /\ ~localStorage.shift.present
  /\ ~localStorage.status.present

\* C16: at most one interval timer is live; once the effects of a step have run one
\* is live exactly when the state is non-idle and loading is over, none is live
\* after an unmount, and the interval callback never runs in Idle.
C16_OneTickTimerWhileActive ==
  /\ Len(intervals) <= 1
  /\ ~EffectsPending => (Len(intervals) = 1 <=> (status # "idle" /\ ~isLoading))
  /\ lastOp = "restart" => intervals = <<>>
  /\ lastOp = "tick" => status # "idle"

C16_Witness ==
  /\ lastOp = "restart"
  /\ stopped.status = "on_break"
  /\ intervals = <<>>
  /\ isLoading
\* ---- what the specification says resolve and accumulate compute
\* the windows of the configuration whose [startTime, endTime) holds the time of day of t
WindowsAt(cfg, t) ==
  { i \in 1..Len(cfg.hourlyAllowances) :
      /\ ParseMinutes(cfg.hourlyAllowances[i].startTime) <= MinutesOfDay(t)
      /\ MinutesOfDay(t) < ParseMinutes(cfg.hourlyAllowances[i].endTime) }

MaxOf(S) == IF S = {} THEN 0 ELSE CHOOSE m \in S : \A x \in S : x <= m

\* the maximum bonusPercent over the windows holding t, 0 if none
BonusAt(cfg, t) == MaxOf({ cfg.hourlyAllowances[i].percentage : i \in WindowsAt(cfg, t) })

\* dayMultiplier[weekdayOf(t)], 100 if no value is configured
DayMultiplierAt(cfg, t) ==
  IF ALL_DAYS[getDay(t) + 1] \in DOMAIN cfg.dayAllowances
  THEN cfg.dayAllowances[ALL_DAYS[getDay(t) + 1]]
  ELSE 100

Reverse(sq) == [i \in 1..Len(sq) |-> sq[Len(sq) + 1 - i]]

ResolveOf(definition, t, cfg) ==
  IF definition = "first" THEN getEffectiveHourlyRate(t, cfg) ELSE getEffectiveHourlyRate2(t, cfg)

Resolved == result # NoCall /\ call.fn = "getEffectiveHourlyRate"

\* C17: resolve returns percent = day multiplier of the weekday + the maximum bonus
\* of the windows holding the instant, rate = baseRate * percent / 100 (here in
\* hundredths), whatever the order of the bonus windows.
C17_ResolveIsDayPlusMaxBonus ==
  Resolved
    => /\ result.percentage = DayMultiplierAt(settings, now) + BonusAt(settings, now)
       /\ result.rate = settings.baseWage * result.percentage
       /\ result = ResolveOf(call.definition, now,
                     [settings EXCEPT !.hourlyAllowances = Reverse(@)])

\* C18: at a time of day equal to a window's startTime the window's bonus counts,
\* at a time of day equal to its endTime it does not.
C18_BonusWindowIsHalfOpen ==
  Resolved
    => \A i \in 1..Len(settings.hourlyAllowances) :
          LET ha == settings.hourlyAllowances[i]
              others == [settings EXCEPT !.hourlyAllowances =
                           SubSeq(@, 1, i - 1) \o SubSeq(@, i + 1, Len(@))]
          IN /\ MinutesOfDay(now) = ParseMinutes(ha.startTime)
                  => result.percentage >= dayAllowancePercent(now, settings) + ha.percentage
             /\ MinutesOfDay(now) = ParseMinutes(ha.endTime)
                  => result.percentage
                       = dayAllowancePercent(now, settings) + BonusAt(others, now)

\* C19: the day component of resolve is the configured value of the weekday, a
\* configured 0 included, and 100 exactly when no value is configured.
C19_DayComponentIsConfiguredValue ==
  Resolved
    => result.percentage - BonusAt(settings, now)
         = IF ALL_DAYS[getDay(now) + 1] \in DOMAIN settings.dayAllowances
           THEN settings.dayAllowances[ALL_DAYS[getDay(now) + 1]]
           ELSE 100

\* t lies in a recorded interval [startTime, endTime) or in a scheduled window of its weekday
Suppressed(shift, cfg, t) ==
  \/ \E i \in 1..Len(shift.breaks) :
        shift.breaks[i].startTime <= t /\ t < shift.breaks[i].endTime
  \/ \E i \in 1..Len(cfg.scheduledBreaks) : InWindow(cfg.scheduledBreaks[i], t)

\* resolve(t).rate of the minute start t = startTime + k minutes if t is before asOf
\* and paid, else 0
PaidRate(shift, cfg, asOf, k) ==
  LET t == shift.startTime + k * MS_PER_MINUTE
  IN IF t < asOf /\ ~Suppressed(shift, cfg, t)
     THEN cfg.baseWage * (DayMultiplierAt(cfg, t) + BonusAt(cfg, t))
     ELSE 0

RECURSIVE RatesBetween(_, _, _, _, _)
\* the sum of PaidRate over the minute starts lo..hi
RatesBetween(shift, cfg, asOf, lo, hi) ==
  IF lo > hi THEN 0
  ELSE IF lo = hi THEN PaidRate(shift, cfg, asOf, lo)
  ELSE RatesBetween(shift, cfg, asOf, lo, (lo + hi) \div 2)
         + RatesBetween(shift, cfg, asOf, (lo + hi) \div 2 + 1, hi)

\* sixty times the sum of resolve(t).rate / 60 over the paid minute starts before asOf
PaidRates(shift, cfg, asOf) ==
  RatesBetween(shift, cfg, asOf, 0, Max(asOf - shift.startTime, 0) \div MS_PER_MINUTE)

Accumulated == result # NoCall /\ call.fn = "calculateShiftEarnings"

\* C20: accumulate returns as totalEarnings the sum of resolve(t).rate / 60 over the
\* minute starts before asOf that no recorded interval and no scheduled window covers.
C20_TotalIsSumOfPaidMinutes ==
  Accumulated
    => result.totalEarnings * MINUTES_PER_HOUR = PaidRates(call.shift, settings, now)

\* the seconds between startTime and endTime that no recorded interval covers,
\* rounded down to whole minutes
PaidWholeMinuteSeconds(r) ==
  LET covered == { t \in r.startTime..(r.endTime - 1) :
                     \E i \in 1..Len(r.breaks) :
                        r.breaks[i].startTime <= t /\ t < r.breaks[i].endTime }
  IN ((r.endTime - r.startTime - Cardinality(covered)) \div MS_PER_MINUTE)
       * SECONDS_PER_MINUTE

RECURSIVE DurationSecondsFrom(_, _)
\* the sum of durationSeconds over segments[i..]
DurationSecondsFrom(segments, i) ==
  IF i > Len(segments) THEN 0
  ELSE segments[i].durationSeconds + DurationSecondsFrom(segments, i + 1)

\* C21: every finalized shift emitted by endShift has rateSegments present, with one
\* entry per distinct percent sorted ascending by percent, whose durationSeconds sum
\* to the shift's duration minus its break time rounded down to whole minutes.
C21_FinalizedShiftHasRateSegments ==
  \A n \in 1..Len(workHistory) :
     LET r == workHistory[n]
     IN /\ r.rateSegments.present
        /\ \A j, k \in 1..Len(r.rateSegments.value) :
              j < k => r.rateSegments.value[j].percentage < r.rateSegments.value[k].percentage
        /\ DurationSecondsFrom(r.rateSegments.value, 1) = PaidWholeMinuteSeconds(r)

\* C22: a command is never applied to a stale state: whatever the order of a tick
\* that fires an automatic break and a startManualBreak, the shift has at most one
\* open interval and the state agrees with that interval's kind.
C22_CommandsSeeTheLatestState ==
  /\ Cardinality(OpenIntervals(currentShift)) <= 1
  /\ status = "on_break" => OpenAutomatic(currentShift) = {}
  /\ status = "on_scheduled_break" => OpenIntervals(currentShift) = OpenAutomatic(currentShift)
  /\ status \in {"idle", "working"} => OpenIntervals(currentShift) = {}

\* C23: the elapsed worked seconds, the elapsed manual-break seconds and the
\* automatic-break countdown are never negative, also when a tick observes a clock
\* earlier than the shift start or than the start of the open break.
C23_DisplayedDurationsAreNonNegative ==
  /\ elapsedWorkTime >= 0
  /\ elapsedBreakTime >= 0
  /\ scheduledBreakCountdown # NULL_COUNTDOWN => scheduledBreakCountdown >= 0

TickWithoutCountdownKeepsBreak ==
  [][(status = "on_scheduled_break" /\ scheduledBreakCountdown = NULL_COUNTDOWN
        /\ lastOp' = "tick")
       => (status' = "on_scheduled_break" /\ scheduledBreakCountdown' = NULL_COUNTDOWN)]_vars

\* C25: startShift in Idle, after loading, creates a snapshot with startTime = now,
\* no breaks and no active automatic break, moves to Working, sets the elapsed work,
\* the elapsed break and the live earnings to 0 and the countdown to none, and sets
\* the banked unused seconds to 0 in memory and in storage.
C25_StartShiftCreatesFreshShift ==
  [][(lastOp' = "startShift" /\ status = "idle" /\ ~isLoading)
       => /\ currentShift' # Null
          /\ currentShift'.startTime = now
          /\ currentShift'.breaks = <<>>
          /\ currentShift'.activeScheduledBreakInfo = Null
          /\ status' = "working"
          /\ elapsedWorkTime' = 0
          /\ elapsedBreakTime' = 0
          /\ currentEarnings' = 0
          /\ scheduledBreakCountdown' = NULL_COUNTDOWN
          /\ lastUnusedScheduledBreakTime' = 0
          /\ localStorage'.unused = [present |-> TRUE, value |-> 0]]_vars

\* a second shift is started after one that left banked seconds behind
C25_Witness ==
  /\ lastOp = "startShift"
  /\ status = "working"
  /\ currentShift # Null
  /\ currentShift.startTime = now
  /\ Len(workHistory) = 1
  /\ workHistory[1].unusedScheduledBreakSeconds.present
  /\ localStorage.unused = [present |-> TRUE, value |-> 0]

\* C26: startManualBreak in Working appends exactly one open manual interval with
\* startTime = now and moves to OnManualBreak; a following endManualBreak sets
\* endTime = now on exactly that interval, changes no other interval, and returns
\* to Working.
C26_ManualBreakOpensAndCloses ==
  [][/\ (lastOp' = "startManualBreak" /\ status = "working" /\ ~isLoading)
          => /\ currentShift' # Null
             /\ Len(currentShift'.breaks) = Len(currentShift.breaks) + 1
             /\ SubSeq(currentShift'.breaks, 1, Len(currentShift.breaks)) = currentShift.breaks
             /\ LET b == currentShift'.breaks[Len(currentShift'.breaks)]
                IN b.startTime = now /\ IsOpen(b) /\ ~b.isScheduled
             /\ status' = "on_break"
     /\ (lastOp' = "endManualBreak" /\ status = "on_break" /\ ~isLoading)
          => /\ currentShift' # Null
             /\ Len(currentShift'.breaks) = Len(currentShift.breaks)
             /\ \A i \in 1..Len(currentShift.breaks) :
                   IF i = Len(currentShift.breaks)
                   THEN /\ IsOpen(currentShift.breaks[i]) /\ ~currentShift.breaks[i].isScheduled
                        /\ currentShift'.breaks[i] = [currentShift.breaks[i] EXCEPT !.endTime = now]
                   ELSE currentShift'.breaks[i] = currentShift.breaks[i]
             /\ status' = "working"]_vars

\* a manual break started after an automatic one, and ended three seconds later
C26_Witness ==
  /\ lastOp = "endManualBreak"
  /\ status = "working"
  /\ currentShift # Null
  /\ Len(currentShift.breaks) = 2
  /\ currentShift.breaks[1].isScheduled
  /\ ~currentShift.breaks[2].isScheduled
  /\ currentShift.breaks[2].endTime = now
  /\ currentShift.breaks[2].startTime < now

\* the step is one in which a scheduled break fires
Fires == lastOp' \in {"tick", "effects"} /\ status = "working" /\ status' = "on_scheduled_break"

Eligible(shift, sb, t) ==
  /\ InWindow(sb, t)
  /\ \A i \in 1..Len(shift.breaks) :
        LET b == shift.breaks[i]
        IN (b.isScheduled /\ b.scheduledBreakId = sb.id)
             => (~IsOpen(b) /\ b.startTime \div MS_PER_DAY # t \div MS_PER_DAY)
  /\ shift.activeScheduledBreakInfo = Null \/ shift.activeScheduledBreakInfo.id # sb.id

EligibleAt(shift, cfg, t) ==
  { n \in 1..Len(cfg.scheduledBreaks) : Eligible(shift, cfg.scheduledBreaks[n], t) }

\* C28: when several scheduled breaks are eligible on the same tick, exactly one
\* fires, and it is the one that comes first in configuration order.
C28_FirstEligibleBreakFires ==
  [][(\/ Fires
      \/ /\ lastOp' = "tick"
         /\ status = "working"
         /\ EligibleAt(currentShift, settings, now') # {})
       => LET eligible == EligibleAt(currentShift, settings, now')
              first == CHOOSE n \in eligible : \A m \in eligible : n <= m
          IN /\ eligible # {}
             /\ status' = "on_scheduled_break"
             /\ Len(currentShift'.breaks) = Len(currentShift.breaks) + 1
             /\ SubSeq(currentShift'.breaks, 1, Len(currentShift.breaks)) = currentShift.breaks
             /\ currentShift'.breaks[Len(currentShift'.breaks)].scheduledBreakId
                  = settings.scheduledBreaks[first].id
             /\ currentShift'.activeScheduledBreakInfo.id
                  = settings.scheduledBreaks[first].id]_vars

\* A and B were both eligible on the tick of 00:01:00, and A, the first, fired
C28_Witness ==
  /\ lastOp = "tick"
  /\ status = "on_scheduled_break"
  /\ now = 60000
  /\ settings.scheduledBreaks = <<BreakA, BreakB>>
  /\ Len(currentShift.breaks) = 1
  /\ currentShift.breaks[1].scheduledBreakId = "A"
  /\ currentShift.activeScheduledBreakInfo.id = "A"
  /\ InWindow(BreakB, now)

AutomaticIntervals(shift) ==
  IF shift = Null THEN 0
  ELSE Cardinality({ i \in 1..Len(shift.breaks) : shift.breaks[i].isScheduled })

\* C29: an automatic break fires only from Working: in Idle, OnManualBreak and
\* OnAutomaticBreak no step appends an automatic interval or enters OnAutomaticBreak,
\* even inside the window of a scheduled break on an applicable weekday.
C29_FiresOnlyFromWorking ==
  [][(status # "working" /\ ~isLoading)
       => /\ AutomaticIntervals(currentShift') <= AutomaticIntervals(currentShift)
          /\ status' = "on_scheduled_break" => status = "on_scheduled_break"]_vars

\* a tick of a manual break inside the window of break A, and no automatic interval
C29_Witness ==
  /\ lastOp = "tick"
  /\ status = "on_break"
  /\ \E n \in 1..Len(settings.scheduledBreaks) :
        settings.scheduledBreaks[n] = BreakA /\ InWindow(BreakA, now)
  /\ AutomaticIntervals(currentShift) = 0

\* C30: a tick in OnAutomaticBreak decreases the countdown by exactly 1, never below
\* 0; the tick on which it reaches 0 sets endTime = now on the open automatic
\* interval of the active break, clears the active break, sets the countdown to
\* none and the state to Working, and keeps the rest of the snapshot.
C30_TickCountsDownAndExpires ==
  [][(lastOp' = "tick" /\ status = "on_scheduled_break"
        /\ scheduledBreakCountdown # NULL_COUNTDOWN)
       => IF scheduledBreakCountdown > 1
          THEN /\ scheduledBreakCountdown' = scheduledBreakCountdown - 1
               /\ status' = "on_scheduled_break"
               /\ currentShift' = currentShift
          ELSE /\ scheduledBreakCountdown' = NULL_COUNTDOWN
               /\ status' = "working"
               /\ currentShift' # Null
               /\ currentShift'.activeScheduledBreakInfo = Null
               /\ currentShift'.id = currentShift.id
               /\ currentShift'.startTime = currentShift.startTime
               /\ Len(currentShift'.breaks) = Len(currentShift.breaks)
               /\ OpenAutomatic(currentShift) # {}
               /\ \A i \in 1..Len(currentShift.breaks) :
                     currentShift'.breaks[i] =
                       IF /\ IsOpen(currentShift.breaks[i])
                          /\ currentShift.breaks[i].isScheduled
                          /\ currentShift.breaks[i].scheduledBreakId
                               = currentShift.activeScheduledBreakInfo.id
                       THEN [currentShift.breaks[i] EXCEPT !.endTime = now']
                       ELSE currentShift.breaks[i]]_vars

\* break A has been counted down to 0 by the interval callback
C30_Witness ==
  /\ lastOp = "tick"
  /\ status = "working"
  /\ effectDeps.status = "on_scheduled_break"
  /\ ticks >= MaxTicks
  /\ scheduledBreakCountdown = NULL_COUNTDOWN
  /\ currentShift.activeScheduledBreakInfo = Null
  /\ \E i \in 1..Len(currentShift.breaks) :
        /\ currentShift.breaks[i].isScheduled
        /\ currentShift.breaks[i].endTime = now
        /\ now - currentShift.breaks[i].startTime = 59 * MS_PER_SECOND

AccumulateOf(definition, shift, cfg, isLiveCalculation, nowMs) ==
  IF definition = "first"
  THEN calculateShiftEarnings(shift, cfg, isLiveCalculation, nowMs)
  ELSE calculateShiftEarnings2(shift, cfg, isLiveCalculation, nowMs)

\* an automatic interval recorded over the whole window of sb on the day of t
RecordedOver(sb, t) ==
  [startTime |-> At(t \div MS_PER_DAY, sb.startTime.hh, sb.startTime.mm),
   endTime |-> At(t \div MS_PER_DAY, sb.endTime.hh, sb.endTime.mm),
   isScheduled |-> TRUE, scheduledBreakId |-> sb.id, scheduledBreakName |-> sb.name]

\* C31: a minute start inside a configured scheduled break window on an applicable
\* weekday earns nothing whether or not an automatic interval is recorded for it:
\* the shift earns what it earns with the windows recorded as intervals.
C31_WindowEarnsNothingUnrecorded ==
  Accumulated
    => \A n \in 1..Len(settings.scheduledBreaks) :
          result.totalEarnings =
            AccumulateOf(call.definition,
                         [call.shift EXCEPT !.breaks =
                            Append(@, RecordedOver(settings.scheduledBreaks[n],
                                                   call.shift.startTime))],
                         settings, call.isLiveCalculation, now).totalEarnings

\* C32: the finalPercent and finalRate accumulate returns are those of resolve at the
\* last completed minute step, the instant max(startTime, asOf - 1 minute).
C32_FinalRateIsOfLastCompletedMinute ==
  Accumulated
    => LET last == ResolveOf(call.definition,
                             Max(call.shift.startTime, now - MS_PER_MINUTE), settings)
       IN /\ result.finalTotalPercentage = last.percentage
          /\ result.finalEffectiveRate = last.rate

InfoPresent == currentShift # Null /\ currentShift.activeScheduledBreakInfo # Null

OpenAutomaticOfInfo ==
  /\ InfoPresent
  /\ \E i \in OpenAutomatic(currentShift) :
        currentShift.breaks[i].scheduledBreakId = currentShift.activeScheduledBreakInfo.id

OpenManual == OpenIntervals(currentShift) \ OpenAutomatic(currentShift)

C34_NonIdleIffSnapshot ==
  ~isLoading => ((status # "idle") = HasStart(currentShift))

\* a shift has been ended and another has been restored by the recovery effect
C34_Witness ==
  /\ ~isLoading
  /\ lastOp = "recover"
  /\ status # "idle" /\ HasStart(currentShift)
  /\ workHistory # <<>>

\* C35: after endShift the bank is 0 and stays 0 while the state is Idle, across a
\* restart too: recovery in Idle never restores a non-zero bank left in storage.
C35_BankStaysZeroWhileIdle ==
  ~isLoading /\ status = "idle" => lastUnusedScheduledBreakTime = 0

LoadingGuarded == {"startShift", "endShift", "startManualBreak", "endManualBreak",
                   "endScheduledBreakEarly"}

\* C36: while loading, startShift, endShift, startManualBreak, endManualBreak and
\* endScheduledBreakEarly change nothing, and no step overwrites or removes the
\* persisted snapshot, state or bank before the recovery effect has read them.
C36_LoadingHoldsCommandsAndStore ==
  [][isLoading
       => /\ localStorage' = localStorage
          /\ lastOp' \in LoadingGuarded
               => UNCHANGED <<status, currentShift, elapsedWorkTime, elapsedBreakTime,
                              scheduledBreakCountdown, lastUnusedScheduledBreakTime,
                              isLoading, timerInterval, workHistory, currentEarnings,
                              effectiveHourlyRate, intervals>>]_vars

\* a command was issued while a stored shift waited to be recovered
C36_Witness ==
  /\ isLoading
  /\ lastOp \in LoadingGuarded
  /\ localStorage.shift.present

\* later keeps identity, start and base wage of earlier, keeps its intervals in place,
\* leaves the closed ones as they are and at most closes the open ones
Continues(earlier, later) ==
  /\ later.id = earlier.id
  /\ later.startTime = earlier.startTime
  /\ later.baseWageAtStart = earlier.baseWageAtStart
  /\ Len(later.breaks) >= Len(earlier.breaks)
  /\ \A i \in 1..Len(earlier.breaks) :
        \/ later.breaks[i] = earlier.breaks[i]
        \/ /\ IsOpen(earlier.breaks[i])
           /\ later.breaks[i] = [earlier.breaks[i] EXCEPT !.endTime = later.breaks[i].endTime]

\* C37: between startShift and endShift the shift's id, startTime and baseWageAtStart
\* never change, its break list only grows by appending, and an interval that has an
\* endTime is never modified or removed by a later command, tick, trigger or recovery;
\* the record endShift finalizes continues the shift in the same way.
C37_ShiftFrame ==
  [][LET earlier == IF lastOp' = "recover" THEN stopped.currentShift ELSE currentShift
     IN /\ earlier # Null /\ currentShift' # Null => Continues(earlier, currentShift')
        /\ earlier # Null /\ lastOp' = "endShift" /\ currentShift' = Null
             => Continues(earlier, workHistory'[1])]_vars

\* a tick, command or recovery has run over a shift holding a closed interval
C37_Witness ==
  /\ currentShift # Null
  /\ \E i \in 1..Len(currentShift.breaks) : ~IsOpen(currentShift.breaks[i])
  /\ lastOp = "recover"

\* what a tick at the present instant would display for the running shift
LiveEarnings ==
  calculateShiftEarningsImported(
    [id |-> currentShift.id, startTime |-> currentShift.startTime, endTime |-> now,
     breaks |-> currentShift.breaks, baseWageAtStart |-> currentShift.baseWageAtStart],
    settings, TRUE, now).totalEarnings

\* C38: with the configuration constant and the clock never set back, the live
\* totalEarnings on successive ticks of one shift never decreases, stays as it is
\* from the start of a break until the break ends, and the totalEarnings endShift
\* stores is the live value a tick at the same instant would compute.
C38_LiveEarningsMonotone ==
  [][/\ lastOp' = "tick" /\ currentShift # Null /\ currentShift' # Null
          => /\ currentEarnings' >= currentEarnings
             /\ status \in {"on_break", "on_scheduled_break"} /\ status' = status
                  => currentEarnings' = currentEarnings
     /\ lastOp' = "endShift" /\ currentShift # Null /\ currentShift' = Null
          => workHistory'[1].totalEarnings = LiveEarnings]_vars

\* a shift that earned in more than one minute and held a break has been ended
C38_Witness ==
  /\ lastOp = "endShift"
  /\ workHistory # <<>>
  /\ \E i \in 1..Len(workHistory[1].breaks) :
        workHistory[1].breaks[i].endTime - workHistory[1].breaks[i].startTime
          > MS_PER_MINUTE
  /\ workHistory[1].totalEarnings > toFixed2(settings.baseWage * DEFAULT_DAY_PERCENT)

RECURSIVE WalkedRates(_, _, _, _, _)
\* the sum of resolve(t).rate over the minute starts t = startTime + k minutes,
\* k = from..(count - 1), that no recorded interval covers
WalkedRates(definition, shift, cfg, from, count) ==
  IF from >= count THEN 0
  ELSE LET t == shift.startTime + from * MS_PER_MINUTE
       IN (IF \E i \in 1..Len(shift.breaks) :
                 shift.breaks[i].startTime <= t /\ t < shift.breaks[i].endTime
           THEN 0 ELSE ResolveOf(definition, t, cfg).rate)
          + WalkedRates(definition, shift, cfg, from + 1, count)

\* C39: the walk evaluates ceil((asOf - startTime) / 1 minute) minute starts and pays
\* rate / 60, a full minute, for each one not on break (the total is returned to two
\* decimals); so a shift of positive duration under a minute with no break is paid one
\* full minute at the rate of its start instant, and a zero-duration shift is paid 0.
C39_WalkPaysCeilingOfMinutes ==
  Accumulated
    => LET duration == now - call.shift.startTime
           steps == (duration + MS_PER_MINUTE - 1) \div MS_PER_MINUTE
       IN /\ settings.scheduledBreaks = <<>>
               => result.totalEarnings
                    = toFixed2(WalkedRates(call.definition, call.shift, settings, 0, steps))
          /\ (/\ call.shift.breaks = <<>>
              /\ ~Suppressed(call.shift, settings, call.shift.startTime)
              /\ 0 < duration
              /\ duration < MS_PER_MINUTE)
               => result.totalEarnings
                    = toFixed2(ResolveOf(call.definition, call.shift.startTime, settings).rate)
          /\ duration = 0 => result.totalEarnings = 0

\* a shift of 30 seconds that ends as the bonus window opens is paid a minute at the
\* rate of its start
C39_Witness ==
  /\ Accumulated
  /\ call.shift.breaks = <<>>
  /\ 0 < now - call.shift.startTime /\ now - call.shift.startTime < MS_PER_MINUTE
  /\ ResolveOf(call.definition, now, settings).rate
       # ResolveOf(call.definition, call.shift.startTime, settings).rate
  /\ result.totalEarnings > 0

\* C40: every rate is derived from the base wage of the configuration at the time of
\* the computation and baseWageAtStart has no influence on totalEarnings: when the
\* configured base wage is changed during a shift, the displayed earnings and the
\* earnings endShift stores are those of the whole shift, the minutes already worked
\* included, at the new base wage, whatever baseWageAtStart is.
C40_EarningsFollowConfiguredWage ==
  [][LET tempShiftForCalc(w) ==
           [id |-> currentShift'.id, startTime |-> currentShift'.startTime,
            endTime |-> now', breaks |-> currentShift'.breaks, baseWageAtStart |-> w]
         finalized(w) == [id |-> workHistory'[1].id,
                          startTime |-> workHistory'[1].startTime,
                          endTime |-> workHistory'[1].endTime,
                          breaks |-> workHistory'[1].breaks, baseWageAtStart |-> w]
     IN /\ lastOp' \in {"tick", "updateBaseWage"} /\ currentShift # Null
           /\ currentShift' # Null
             => \A w \in NewBaseWages \cup {currentShift'.baseWageAtStart} :
                   LET live == AccumulateOf(wageCalculator, tempShiftForCalc(w), settings',
                                            TRUE, now')
                   IN /\ currentEarnings' = live.totalEarnings
                      /\ effectiveHourlyRate' = settings'.baseWage * live.finalTotalPercentage
        /\ lastOp' = "endShift" /\ currentShift # Null /\ currentShift' = Null
             => \A w \in NewBaseWages \cup {currentShift.baseWageAtStart} :
                   workHistory'[1].totalEarnings
                     = AccumulateOf(wageCalculator, finalized(w), settings, FALSE,
                                    now).totalEarnings]_vars

\* the base wage was raised after a paid minute: the shift ended with earnings of the
\* new wage, not of its baseWageAtStart
C40_Witness ==
  /\ lastOp = "endShift"
  /\ workHistory # <<>>
  /\ workHistory[1].baseWageAtStart # settings.baseWage
  /\ workHistory[1].totalEarnings = toFixed2(settings.baseWage * DEFAULT_DAY_PERCENT)
  /\ workHistory[1].totalEarnings
       # toFixed2(workHistory[1].baseWageAtStart * DEFAULT_DAY_PERCENT)
====
